---- MODULE Spec2Model ----
(***************************************************************************)
(* A state-machine model of the chunked world store of Minicraft-ASCII:    *)
(* lazy chunk generation, the tile automaton, the entity list, the player, *)
(* the updater and the save/load codec (src/source/core/*.py,              *)
(* src/source/utils/*.py, src/main.py).                                    *)
(*                                                                         *)
(* Conventions.                                                            *)
(*  - Python's None is the empty tuple <<>>, a present value v is <<v>>.   *)
(*  - Noise values (elevation, humidity, temperature) are fixed-point      *)
(*    integers in hundredths: 0.28 is 28, 1.75 is 175.                     *)
(*  - Every Tile object has an identity `obj`; two cells alias one Tile    *)
(*    exactly when their obj fields are equal.                             *)
(*  - The process-wide random source of Python's `random` module is the    *)
(*    variable rng; every draw is a function of rng and advances it.       *)
(*  - Catalog names are written with an underscore ("oak tree" is          *)
(*    oak_tree).                                                           *)
(***************************************************************************)
EXTENDS Integers, Sequences, FiniteSets, TLC

VARIABLES
    chunks,     \* World.chunks: (cx, cy) -> [h -> [w -> Tile]]
    entities,   \* World.entities: sequence of Mob
    wseed,      \* World.seed (None before initialize/load)
    perm,       \* World.perm (None stands for the empty list)
    spawn,      \* <<World.sx, World.sy>>
    wticks,     \* World.ticks
    loaded,     \* World.loaded
    player,     \* Player fields x, y, cx, cy, health, energy, facing
    uticks,     \* Updater.ticks
    rng,        \* state of the global random source
    nextObj,    \* number of Tile objects created so far (next identity)
    file,       \* ./saves/world.dat: None or the pickled record
    gen,        \* history: (seed, cx, cy) -> the id grids load_chunk generated
    ops,        \* operations performed so far
    twin,       \* a second process given the same seed and operations (None: there is none)
    last        \* the operation performed by the last step, with its arguments

vars == <<chunks, entities, wseed, perm, spawn, wticks, loaded, player,
          uticks, rng, nextObj, file, gen, ops, twin, last>>

None == <<>>
Some(v) == <<v>>

(***************************************************************************)
(* Program constants                                                       *)
(***************************************************************************)
CHUNK_SIZE == 8
TILE_SIZE == 16

(***************************************************************************)
(* Tile catalog (source/core/tile.py)                                      *)
(***************************************************************************)
TileKind(id, solid, parent, health) ==
    [id |-> id, solid |-> solid, parent |-> parent, health |-> health]

tiles ==
    [ empty      |-> TileKind(0,  FALSE, None,     None),
      ocean      |-> TileKind(1,  FALSE, None,     None),
      sea        |-> TileKind(2,  FALSE, None,     None),
      river      |-> TileKind(3,  FALSE, None,     None),
      sand       |-> TileKind(4,  FALSE, Some(5),  Some(1)),
      dirt       |-> TileKind(5,  FALSE, Some(6),  Some(1)),
      hole       |-> TileKind(6,  FALSE, None,     None),
      grass      |-> TileKind(7,  FALSE, Some(5),  Some(1)),
      tallgrass  |-> TileKind(8,  FALSE, Some(7),  Some(2)),
      oak_tree   |-> TileKind(9,  TRUE,  Some(7),  Some(16)),
      birch_tree |-> TileKind(10, TRUE,  Some(7),  Some(24)),
      pine_tree  |-> TileKind(11, TRUE,  Some(6),  Some(32)),
      stone      |-> TileKind(12, TRUE,  Some(13), Some(32)),
      gravel     |-> TileKind(13, FALSE, Some(5),  Some(4)),
      ice        |-> TileKind(14, FALSE, Some(2),  Some(4)),
      snow       |-> TileKind(15, FALSE, Some(5),  Some(1)),
      frost      |-> TileKind(16, FALSE, Some(7),  Some(2)),
      iceberg    |-> TileKind(17, FALSE, Some(1),  Some(2)) ]

\* Game.tile = list(tiles): the catalog names in id order (index id + 1 here).
Game_tile ==
    << "empty", "ocean", "sea", "river", "sand", "dirt", "hole", "grass",
       "tallgrass", "oak_tree", "birch_tree", "pine_tree", "stone", "gravel",
       "ice", "snow", "frost", "iceberg" >>

\* A catalog lookup in which a hole decays to grass.
KindOfRegrowing(id) ==
    IF id = tiles.hole.id
    THEN [tiles.hole EXCEPT !.parent = Some(tiles.grass.id)]
    ELSE tiles[Game_tile[id + 1]]

KindOf(id) == tiles[Game_tile[id + 1]]

fluids == { tiles.ocean.id, tiles.sea.id, tiles.river.id }

TileIds == { tiles[n].id : n \in DOMAIN tiles }

(***************************************************************************)
(* The random source.  Python's generator is a deterministic function of   *)
(* its state; it is modelled by the full-period generator                  *)
(* r -> 75 * (r + 1) - 1 modulo 65537 on the states 0..65535.  A draw      *)
(* reads the stepped state.                                                *)
(***************************************************************************)
RandStep(r) == (75 * r + 74) % 65537

\* random.seed(s)
SeedState(s) == s % 65536

\* random.randint(a, b) drawn in state r; the state afterwards is RandStep(r).
randint(r, a, b) == a + (RandStep(r) % (b - a + 1))

\* a * b modulo 65537 for 0 <= a, b <= 65536, without leaving 32 bits.
MulMod(a, b) == (((a * (b \div 256)) % 65537) * 256 + a * (b % 256)) % 65537

SquareMod(a) == MulMod(a, a)

\* 75^n modulo 65537.
RECURSIVE Pow75(_)
Pow75(n) ==
    IF n = 0 THEN 1
    ELSE IF n % 2 = 1 THEN MulMod(75, Pow75(n - 1))
    ELSE SquareMod(Pow75(n \div 2))

\* n draws from the random source: RandStep applied n times, in closed form
\* (r + 1 is multiplied by 75 at every step).
Adv(r, n) == MulMod(Pow75(n), r + 1) - 1

\* Tile.__init__ draws twice (randint(2, 4) for the background, choice(chars)).
TileInitDraws(r) == RandStep(RandStep(r))

(***************************************************************************)
(* Tile.clone: a new Tile object with the fields of `t` (its current       *)
(* health included).  m carries the random source and the object counter.  *)
(***************************************************************************)
CloneTile(t, m) ==
    [ tile |-> [id |-> t.id, health |-> t.health, obj |-> m.obj],
      rng  |-> TileInitDraws(m.rng),
      obj  |-> m.obj + 1 ]

(***************************************************************************)
(* Noise fields.  Perlin.permutation shuffles with the random source; the  *)
(* table it returns is identified by the state the shuffle read.  The      *)
(* three fields are functions of (perm, wx, wy) only.                      *)
(***************************************************************************)
Permutation(r) == [perm |-> RandStep(r), rng |-> RandStep(RandStep(r))]

Layout(p) == p % 4

\* Layout 0: a sand island whose corner is world cell (0, 0), ocean around.
\* Layout 1: ocean around the origin, forested land from wx = 24 on.
\* Layout 2: mainland with a sea channel at wx = 6, mountains north/south.
\* Layout 3: a coast: sea for wx < 0, beach and plains to the east.
Heightmap(p, wx, wy) ==
    CASE Layout(p) = 0 ->
           IF wx >= 0 /\ wy >= 0 /\ wx < 16 /\ wy < 16 THEN 50 ELSE 10
      [] Layout(p) = 1 ->
           IF wx >= 24 THEN 100 ELSE 10
      [] Layout(p) = 2 ->
           IF wx = 6 THEN 35
           ELSE IF wy <= -20 THEN 180
           ELSE IF wy >= 20 THEN 200
           ELSE 100
      [] OTHER ->
           IF wx < 0 THEN 35 ELSE IF wx < 4 THEN 50 ELSE 90

Humidity(p, wx, wy) ==
    CASE Layout(p) = 2 -> IF wy < 0 THEN 30 ELSE 70
      [] OTHER -> 50

Temperature(p, wx, wy) ==
    CASE Layout(p) = 2 -> IF wx < -8 THEN 10 ELSE IF wx < 16 THEN 60 ELSE 95
      [] Layout(p) = 3 -> IF wy < 0 THEN 10 ELSE 40
      [] OTHER -> 60

(***************************************************************************)
(* Biome classification of one cell (World.load_chunk, lines 80-180).      *)
(* r is the random state after the default tiles["grass"].clone().         *)
(* Result: the chosen kind, the random state after the rolls, and whether  *)
(* a branch assigned a second clone (otherwise the default clone stays).   *)
(***************************************************************************)
Pick(n, r) == [n |-> n, rng |-> r, cloned |-> TRUE]
Keep(r) == [n |-> "grass", rng |-> r, cloned |-> FALSE]

\* "if (elevation > 0.60) and (randint(0, 32) <= 8): oak or birch by randint(0, 1)"
WarmForest(e, r) ==
    IF e > 60
    THEN IF randint(r, 0, 32) <= 8
         THEN IF randint(RandStep(r), 0, 1) = 1
              THEN Pick("oak_tree", RandStep(RandStep(r)))
              ELSE Pick("birch_tree", RandStep(RandStep(r)))
         ELSE Keep(RandStep(r))
    ELSE Keep(r)

Biome(e, h, t, r) ==
    IF e < 28 THEN Pick("ocean", r)
    ELSE IF e > 28 /\ e < 32 THEN
        IF t < 25 THEN Pick("iceberg", r) ELSE Pick("ocean", r)
    ELSE IF e > 32 /\ e < 42 THEN
        IF t < 25 THEN Pick("ice", r) ELSE Pick("sea", r)
    ELSE IF e > 42 /\ e < 60 THEN
        IF t < 25 THEN Pick("snow", r) ELSE Pick("sand", r)
    ELSE IF e < 175 THEN
        IF t < 25 THEN
            IF h < 40 THEN
                IF randint(r, 0, 8) <= 4
                THEN Pick("frost", RandStep(r)) ELSE Pick("snow", RandStep(r))
            ELSE
                IF e > 75
                THEN IF randint(r, 0, 16) <= 4
                     THEN Pick("pine_tree", RandStep(r))
                     ELSE Pick("frost", RandStep(r))
                ELSE Pick("frost", r)
        ELSE IF t < 50 THEN
            IF h > 40 THEN
                IF e > 70
                THEN IF randint(r, 0, 8) <= 4
                     THEN Pick("tallgrass", RandStep(r))
                     ELSE Pick("grass", RandStep(r))
                ELSE Pick("grass", r)
            ELSE
                IF randint(r, 0, 8) <= 4
                THEN Pick("frost", RandStep(r)) ELSE Pick("snow", RandStep(r))
        ELSE IF t < 70 THEN
            IF h > 40 THEN
                IF e > 50
                THEN IF randint(r, 0, 16) <= 4
                     THEN Pick("oak_tree", RandStep(r))
                     ELSE Keep(RandStep(r))
                ELSE Keep(r)
            ELSE Keep(r)
        ELSE IF t < 90 THEN
            IF h < 30 THEN Pick("sand", r)
            ELSE IF h > 30 /\ h < 50 THEN Pick("grass", r)
            ELSE WarmForest(e, r)
        ELSE
            IF h < 40 THEN Pick("sand", r)
            ELSE IF h > 40 /\ h < 60 THEN Pick("grass", r)
            ELSE WarmForest(e, r)
    ELSE IF e < 195 THEN Pick("stone", r)
    ELSE Pick("gravel", r)

SpawnKinds == { tiles.grass.id, tiles.sand.id, tiles.snow.id }
(***************************************************************************)
(* World.load_chunk.  m is the memory the world operations work on: the    *)
(* World fields chunks, entities, seed, perm, sx, sy, the random source    *)
(* rng, the object counter obj and the generation history gen.             *)
(***************************************************************************)
Rows == 0..(CHUNK_SIZE - 1)

\* The placeholder grid: each row is [tiles["empty"].clone()] * CHUNK_SIZE,
\* one object per row shared by the row's cells.
EmptyGrid(m) ==
    [ cells |-> [k \in 1..(CHUNK_SIZE * CHUNK_SIZE) |->
                   [id |-> tiles.empty.id, health |-> tiles.empty.health,
                    obj |-> m.obj + ((k - 1) \div CHUNK_SIZE)]],
      rng |-> Adv(m.rng, 2 * CHUNK_SIZE),
      obj |-> m.obj + CHUNK_SIZE,
      sx |-> m.sx, sy |-> m.sy ]

\* wx = x * CHUNK_SIZE + w and wy = y * CHUNK_SIZE + h for cell k = h * CHUNK_SIZE + w.
CellX(x, k) == x * CHUNK_SIZE + (k % CHUNK_SIZE)
CellY(y, k) == y * CHUNK_SIZE + (k \div CHUNK_SIZE)

\* The three noise samples of a cell and its classification.
Classify(p, wx, wy, r) ==
    Biome(Heightmap(p, wx, wy), Humidity(p, wx, wy), Temperature(p, wx, wy), r)

\* A generation without the default tile: a cell no branch assigns keeps the
\* placeholder.
PutCellNoDefault(acc, k, wx, wy, b) ==
    [acc EXCEPT !.cells[k + 1].id = IF b.cloned THEN tiles[b.n].id ELSE @,
                !.rng = b.rng, !.obj = acc.obj + 2]

\* "chunk[h][w] = current_tile" and the spawn point check that follows it.
\* b.cloned tells whether a branch replaced the default grass clone.
PutCell(acc, k, wx, wy, b) ==
    [ cells |-> [acc.cells EXCEPT ![k + 1] =
                    [id |-> tiles[b.n].id, health |-> tiles[b.n].health,
                     obj |-> IF b.cloned THEN acc.obj + 1 ELSE acc.obj]],
      rng |-> IF b.cloned THEN TileInitDraws(b.rng) ELSE b.rng,
      obj |-> IF b.cloned THEN acc.obj + 2 ELSE acc.obj + 1,
      sx  |-> IF acc.sx = 0 /\ acc.sy = 0 /\ tiles[b.n].id \in SpawnKinds
              THEN wx ELSE acc.sx,
      sy  |-> IF acc.sx = 0 /\ acc.sy = 0 /\ tiles[b.n].id \in SpawnKinds
              THEN wy ELSE acc.sy ]

\* One iteration of the inner loop body: the default tiles["grass"].clone()
\* draws first, then the bands.
GenCell(p, x, y, k, acc) ==
    PutCell(acc, k, CellX(x, k), CellY(y, k),
            Classify(p, CellX(x, k), CellY(y, k), TileInitDraws(acc.rng)))

\* (The test of acc.obj in the loops below is never true: reading the
\* accumulator makes TLC evaluate it before the next iteration.)
RECURSIVE GenCells(_, _, _, _, _)
GenCells(p, x, y, k, acc) ==
    IF k = CHUNK_SIZE * CHUNK_SIZE \/ acc.obj < 0 THEN acc
    ELSE GenCells(p, x, y, k + 1, GenCell(p, x, y, k, acc))

GridOf(cells) ==
    [h \in Rows |-> [w \in Rows |-> cells[h * CHUNK_SIZE + w + 1]]]

IdsOf(cells) == [k \in DOMAIN cells |-> cells[k].id]

\* The history of generated grids, extended with the grid of chunk (x, y).
Generated(m, x, y, ids) ==
    [k \in DOMAIN m.gen \cup {<<m.seed, x, y>>} |->
        IF k = <<m.seed, x, y>>
        THEN IF k \in DOMAIN m.gen THEN m.gen[k] \cup {ids} ELSE {ids}
        ELSE m.gen[k]]

\* "self.chunks[(x, y)] = chunk"
StoreChunk(m, x, y, g) ==
    [m EXCEPT
       !.chunks = [c \in DOMAIN m.chunks \cup {<<x, y>>} |->
                     IF c = <<x, y>> THEN GridOf(g.cells) ELSE m.chunks[c]],
       !.sx = g.sx, !.sy = g.sy, !.rng = g.rng, !.obj = g.obj,
       !.gen = Generated(m, x, y, IdsOf(g.cells))]

\* A load_chunk without the presence test: it generates the chunk again.
load_chunk_again(m, x, y) ==
    StoreChunk(m, x, y, GenCells(m.perm, x, y, 0, EmptyGrid(m)))

load_chunk(m, x, y) ==
    IF <<x, y>> \in DOMAIN m.chunks THEN m
    ELSE StoreChunk(m, x, y, GenCells(m.perm, x, y, 0, EmptyGrid(m)))

(***************************************************************************)
(* World.get_tile / World.set_tile.  Python's // and % are floor division  *)
(* and floor modulo, as are \div and % here.                               *)
(***************************************************************************)
\* Division that truncates toward zero, as C's / does.
ChunkCoordTrunc(v) ==
    IF v >= 0 THEN v \div CHUNK_SIZE ELSE -((-v) \div CHUNK_SIZE)

ChunkCoord(v) == v \div CHUNK_SIZE
LocalCoord(v) == v % CHUNK_SIZE

\* "return self.chunks[(cx, cy)][ly][lx]"
TileAt(m, x, y) ==
    m.chunks[<<ChunkCoord(x), ChunkCoord(y)>>][LocalCoord(y)][LocalCoord(x)]

\* get_tile returns the Tile and may have generated its chunk.
Fetched(m, x, y) == [m |-> m, tile |-> TileAt(m, x, y)]

get_tile(m, x, y) == Fetched(load_chunk(m, ChunkCoord(x), ChunkCoord(y)), x, y)

\* "self.chunks[(cx, cy)][ly][lx] = tile" with c the clone just made.
StoreTile(m, x, y, c) ==
    [m EXCEPT
       !.chunks[<<ChunkCoord(x), ChunkCoord(y)>>][LocalCoord(y)][LocalCoord(x)] = c.tile,
       !.rng = c.rng, !.obj = c.obj]

CloneInto(m, x, y, tile) == StoreTile(m, x, y, CloneTile(tile, m))

\* set_tile with a Tile argument (isinstance(tile, int) is false): tile.clone().
set_tile(m, x, y, tile) ==
    CloneInto(load_chunk(m, ChunkCoord(x), ChunkCoord(y)), x, y, tile)

\* set_tile with an id: tiles[Game.tile[id]].clone().
set_tile_id(m, x, y, id) == set_tile(m, x, y, KindOf(id))

(***************************************************************************)
(* Mobs (source/core/mob.py) and the entity list                           *)
(***************************************************************************)
directions == << "w", "s", "a", "d" >>

offsets == [ w |-> <<0, -1>>, s |-> <<0, 1>>, a |-> <<-1, 0>>, d |-> <<1, 0>> ]

mobs == [ pig |-> [id |-> 0, health |-> 20], sheep |-> [id |-> 1, health |-> 20] ]

\* Game.mobs = list(mobs)
Game_mobs == << "pig", "sheep" >>

\* random.choice(directions) drawn in state r.
ChoiceDirection(r) == directions[1 + (RandStep(r) % Len(directions))]

\* One draw from the random source.
Drawn(m) == [m EXCEPT !.rng = RandStep(m.rng)]

\* Mob.clone -> Mob.__init__: x = y = 0, facing = choice(directions).
CloneMob(proto, m) ==
    [ mob |-> [id |-> proto.id, health |-> proto.health, x |-> 0, y |-> 0,
               facing |-> ChoiceDirection(m.rng)],
      m   |-> Drawn(m) ]

MAX_MOBS == 16

IsBlocked(tile) == tile.id \in fluids \/ KindOf(tile.id).solid

\* A spawn that puts the mob in front of the list.
PlaceMobFirst(g, x, y, mob) ==
    IF IsBlocked(g.tile) THEN g.m
    ELSE [g.m EXCEPT !.entities = <<[mob EXCEPT !.x = x, !.y = y]>> \o @]

\* spawn_mob after get_tile: the suitability test and the append.
PlaceMob(g, x, y, mob) ==
    IF IsBlocked(g.tile) THEN g.m
    ELSE [g.m EXCEPT !.entities = Append(@, [mob EXCEPT !.x = x, !.y = y])]

spawn_mob(m, x, y, mob) ==
    IF Len(m.entities) > MAX_MOBS THEN m
    ELSE PlaceMob(get_tile(m, x, y), x, y, mob)

RemoveAt(s, i) == SubSeq(s, 1, i - 1) \o SubSeq(s, i + 1, Len(s))

\* The index of the first entity at (x, y), 0 if there is none.
FirstAt(ents, x, y) ==
    IF \E i \in 1..Len(ents) : ents[i].x = x /\ ents[i].y = y
    THEN CHOOSE i \in 1..Len(ents) :
            /\ ents[i].x = x /\ ents[i].y = y
            /\ \A j \in 1..(i - 1) : ~(ents[j].x = x /\ ents[j].y = y)
    ELSE 0

\* A despawn that removes every entity whose coordinates are (x, y).
despawn_mob_all(ents, x, y) ==
    SelectSeq(ents, LAMBDA e : ~(e.x = x /\ e.y = y))

\* Removes the first entity whose coordinates are (x, y).
despawn_mob(ents, x, y) ==
    IF FirstAt(ents, x, y) = 0 THEN ents ELSE RemoveAt(ents, FirstAt(ents, x, y))

\* A move that does not ask can_move.
MobStepBlind(g, i) ==
    IF randint(g.m.rng, 0, 4) = 2
    THEN [g.m EXCEPT !.entities[i].facing = ChoiceDirection(RandStep(g.m.rng)),
                     !.rng = RandStep(RandStep(g.m.rng))]
    ELSE [g.m EXCEPT !.entities[i].x = @ + offsets[g.m.entities[i].facing][1],
                     !.entities[i].y = @ + offsets[g.m.entities[i].facing][2],
                     !.rng = RandStep(g.m.rng)]

\* Mob.move after can_move fetched the tile ahead (g): "not can_move or
\* randint(0, 4) == 2" draws the roll only if can_move held.
MobStep(g, i) ==
    IF IsBlocked(g.tile)
    THEN [g.m EXCEPT !.entities[i].facing = ChoiceDirection(g.m.rng),
                     !.rng = RandStep(g.m.rng)]
    ELSE IF randint(g.m.rng, 0, 4) = 2
    THEN [g.m EXCEPT !.entities[i].facing = ChoiceDirection(RandStep(g.m.rng)),
                     !.rng = RandStep(RandStep(g.m.rng))]
    ELSE [g.m EXCEPT !.entities[i].x = @ + offsets[g.m.entities[i].facing][1],
                     !.entities[i].y = @ + offsets[g.m.entities[i].facing][2],
                     !.rng = RandStep(g.m.rng)]

\* Mob.move for the entity at index i.
mob_move(m, i) ==
    MobStep(get_tile(m, m.entities[i].x + offsets[m.entities[i].facing][1],
                        m.entities[i].y + offsets[m.entities[i].facing][2]), i)

(***************************************************************************)
(* The tile automaton (World.update_tiles, World.tiles_around)             *)
(***************************************************************************)
AroundDirections == << <<-1, 0>>, <<1, 0>>, <<0, -1>>, <<0, 1>> >>

\* The cell at offset (dy, dx) from local (x, y) of chunk (cx, cy) exists
\* (its chunk is loaded) and holds an influence tile.
Influenced(chs, influences, nc, ny, nx) ==
    nc \in DOMAIN chs /\ chs[nc][ny][nx].id \in influences

\* A neighbour lookup that never leaves the chunk: the coordinates wrap.
tiles_around_inside(chs, influences, x, y, cx, cy) ==
    \E k \in 1..Len(AroundDirections) :
        Influenced(chs, influences, <<cx, cy>>,
                   (y + AroundDirections[k][1]) % CHUNK_SIZE,
                   (x + AroundDirections[k][2]) % CHUNK_SIZE)

\* `for dy, dx in directions`; an unloaded neighbour chunk is skipped.
tiles_around(chs, influences, x, y, cx, cy) ==
    \E k \in 1..Len(AroundDirections) :
        Influenced(chs, influences,
                   << cx + ((x + AroundDirections[k][2]) \div CHUNK_SIZE),
                      cy + ((y + AroundDirections[k][1]) \div CHUNK_SIZE) >>,
                   (y + AroundDirections[k][1]) % CHUNK_SIZE,
                   (x + AroundDirections[k][2]) % CHUNK_SIZE)

\* The cells of chunk (cx, cy) that update_tiles replaces: read from the
\* chunk map as it is when the call starts (this_chunk is not written until
\* the commit at the end).
Flips(chs, cx, cy, target, influences) ==
    { c \in Rows \X Rows :
        /\ chs[<<cx, cy>>][c[1]][c[2]].id = target
        /\ tiles_around(chs, influences, c[2], c[1], cx, cy) }

\* "temp_chunk[yt][xt] = replace" for every cell of fl, then the commit:
\* rep is the one clone made by the call.
Commit(m, cx, cy, rep, fl) ==
    IF fl = {}
    THEN [m EXCEPT !.rng = rep.rng, !.obj = rep.obj]
    ELSE [m EXCEPT
            !.chunks[<<cx, cy>>] =
               [h \in Rows |-> [w \in Rows |->
                   IF <<h, w>> \in fl THEN rep.tile ELSE @[h][w]]],
            !.rng = rep.rng, !.obj = rep.obj]

\* An update_tiles that generates the chunk when it is not loaded.
update_tiles_loading(m, cx, cy, target, parent, influences) ==
    Commit(load_chunk(m, cx, cy), cx, cy, CloneTile(parent, m),
           Flips(load_chunk(m, cx, cy).chunks, cx, cy, target.id, influences))

update_tiles(m, cx, cy, target, parent, influences) ==
    IF <<cx, cy>> \notin DOMAIN m.chunks THEN m
    ELSE Commit(m, cx, cy, CloneTile(parent, m),
                Flips(m.chunks, cx, cy, target.id, influences))

GrassInfluences == { tiles.grass.id, tiles.tallgrass.id }
WaterInfluences == { tiles.ocean.id, tiles.sea.id, tiles.river.id }

\* "if ticks % 32 == 0: if randint(0, 8) == 4: update_tiles(dirt -> grass)"
GrassRule(m, cx, cy, ticks) ==
    IF ticks % 32 # 0 THEN m
    ELSE IF randint(m.rng, 0, 8) = 4
    THEN update_tiles(Drawn(m), cx, cy, tiles.dirt, tiles.grass, GrassInfluences)
    ELSE Drawn(m)

\* A water rule that runs every 16 ticks.
WaterRuleSlow(m, cx, cy, ticks) ==
    IF ticks % 16 # 0 THEN m
    ELSE update_tiles(m, cx, cy, tiles.hole, tiles.river, WaterInfluences)

\* "if ticks % 8 == 0: update_tiles(hole -> river)"
WaterRule(m, cx, cy, ticks) ==
    IF ticks % 8 # 0 THEN m
    ELSE update_tiles(m, cx, cy, tiles.hole, tiles.river, WaterInfluences)

\* The body of "for cx in rx: for cy in ry" for one chunk.
UpdateChunk(m, cx, cy, ticks) ==
    WaterRule(GrassRule(m, cx, cy, ticks), cx, cy, ticks)

\* The chunk radius World.update iterates around the player (range(cx-3, cx+4)).
WINDOW == 3

\* The chunk window in iteration order: cx outer, cy inner.
WindowSeq(pcx, pcy) ==
    [k \in 1..((2 * WINDOW + 1) * (2 * WINDOW + 1)) |->
        << pcx - WINDOW + ((k - 1) \div (2 * WINDOW + 1)),
           pcy - WINDOW + ((k - 1) % (2 * WINDOW + 1)) >>]

RECURSIVE UpdateChunks(_, _, _, _)
UpdateChunks(m, win, k, ticks) ==
    IF k > Len(win) \/ m.obj < 0 THEN m
    ELSE UpdateChunks(UpdateChunk(m, win[k][1], win[k][2], ticks), win, k + 1, ticks)

\* "if randint(0, 8) == 4: mob.move(self)" for the entity at index i.
MobTurn(m, i) ==
    IF randint(m.rng, 0, 8) = 4 THEN mob_move(Drawn(m), i) ELSE Drawn(m)

\* "for mob in self.entities"
RECURSIVE MoveMobs(_, _)
MoveMobs(m, i) ==
    IF i > Len(m.entities) \/ m.obj < 0 THEN m
    ELSE MoveMobs(MobTurn(m, i), i + 1)

(***************************************************************************)
(* math.cos / math.sin of whole degrees, in millionths, truncated toward   *)
(* zero.  int(px + c * d) computed from these agrees with the floating     *)
(* point value except where c * d is within 1e-6 of a whole number.        *)
(***************************************************************************)
CosTable ==
    << 1000000, 999847, 999390, 998629, 997564, 996194, 994521, 992546,
       990268, 987688, 984807, 981627, 978147, 974370, 970295, 965925,
       961261, 956304, 951056, 945518, 939692, 933580, 927183, 920504,
       913545, 906307, 898794, 891006, 882947, 874619, 866025, 857167,
       848048, 838670, 829037, 819152, 809016, 798635, 788010, 777145,
       766044, 754709, 743144, 731353, 719339, 707106, 694658, 681998,
       669130, 656059, 642787, 629320, 615661, 601815, 587785, 573576,
       559192, 544639, 529919, 515038, 500000, 484809, 469471, 453990,
       438371, 422618, 406736, 390731, 374606, 358367, 342020, 325568,
       309016, 292371, 275637, 258819, 241921, 224951, 207911, 190808,
       173648, 156434, 139173, 121869, 104528, 87155, 69756, 52335,
       34899, 17452, 0, -17452, -34899, -52335, -69756, -87155,
       -104528, -121869, -139173, -156434, -173648, -190808, -207911, -224951,
       -241921, -258819, -275637, -292371, -309016, -325568, -342020, -358367,
       -374606, -390731, -406736, -422618, -438371, -453990, -469471, -484809,
       -499999, -515038, -529919, -544639, -559192, -573576, -587785, -601815,
       -615661, -629320, -642787, -656059, -669130, -681998, -694658, -707106,
       -719339, -731353, -743144, -754709, -766044, -777145, -788010, -798635,
       -809016, -819152, -829037, -838670, -848048, -857167, -866025, -874619,
       -882947, -891006, -898794, -906307, -913545, -920504, -927183, -933580,
       -939692, -945518, -951056, -956304, -961261, -965925, -970295, -974370,
       -978147, -981627, -984807, -987688, -990268, -992546, -994521, -996194,
       -997564, -998629, -999390, -999847, -1000000, -999847, -999390, -998629,
       -997564, -996194, -994521, -992546, -990268, -987688, -984807, -981627,
       -978147, -974370, -970295, -965925, -961261, -956304, -951056, -945518,
       -939692, -933580, -927183, -920504, -913545, -906307, -898794, -891006,
       -882947, -874619, -866025, -857167, -848048, -838670, -829037, -819152,
       -809016, -798635, -788010, -777145, -766044, -754709, -743144, -731353,
       -719339, -707106, -694658, -681998, -669130, -656059, -642787, -629320,
       -615661, -601815, -587785, -573576, -559192, -544639, -529919, -515038,
       -500000, -484809, -469471, -453990, -438371, -422618, -406736, -390731,
       -374606, -358367, -342020, -325568, -309016, -292371, -275637, -258819,
       -241921, -224951, -207911, -190808, -173648, -156434, -139173, -121869,
       -104528, -87155, -69756, -52335, -34899, -17452, 0, 17452,
       34899, 52335, 69756, 87155, 104528, 121869, 139173, 156434,
       173648, 190808, 207911, 224951, 241921, 258819, 275637, 292371,
       309016, 325568, 342020, 358367, 374606, 390731, 406736, 422618,
       438371, 453990, 469471, 484809, 500000, 515038, 529919, 544639,
       559192, 573576, 587785, 601815, 615661, 629320, 642787, 656059,
       669130, 681998, 694658, 707106, 719339, 731353, 743144, 754709,
       766044, 777145, 788010, 798635, 809016, 819152, 829037, 838670,
       848048, 857167, 866025, 874619, 882947, 891006, 898794, 906307,
       913545, 920504, 927183, 933580, 939692, 945518, 951056, 956304,
       961261, 965925, 970295, 974370, 978147, 981627, 984807, 987688,
       990268, 992546, 994521, 996194, 997564, 998629, 999390, 999847 >>

SinTable ==
    << 0, 17452, 34899, 52335, 69756, 87155, 104528, 121869,
       139173, 156434, 173648, 190808, 207911, 224951, 241921, 258819,
       275637, 292371, 309016, 325568, 342020, 358367, 374606, 390731,
       406736, 422618, 438371, 453990, 469471, 484809, 499999, 515038,
       529919, 544639, 559192, 573576, 587785, 601815, 615661, 629320,
       642787, 656059, 669130, 681998, 694658, 707106, 719339, 731353,
       743144, 754709, 766044, 777145, 788010, 798635, 809016, 819152,
       829037, 838670, 848048, 857167, 866025, 874619, 882947, 891006,
       898794, 906307, 913545, 920504, 927183, 933580, 939692, 945518,
       951056, 956304, 961261, 965925, 970295, 974370, 978147, 981627,
       984807, 987688, 990268, 992546, 994521, 996194, 997564, 998629,
       999390, 999847, 1000000, 999847, 999390, 998629, 997564, 996194,
       994521, 992546, 990268, 987688, 984807, 981627, 978147, 974370,
       970295, 965925, 961261, 956304, 951056, 945518, 939692, 933580,
       927183, 920504, 913545, 906307, 898794, 891006, 882947, 874619,
       866025, 857167, 848048, 838670, 829037, 819152, 809016, 798635,
       788010, 777145, 766044, 754709, 743144, 731353, 719339, 707106,
       694658, 681998, 669130, 656059, 642787, 629320, 615661, 601815,
       587785, 573576, 559192, 544639, 529919, 515038, 499999, 484809,
       469471, 453990, 438371, 422618, 406736, 390731, 374606, 358367,
       342020, 325568, 309016, 292371, 275637, 258819, 241921, 224951,
       207911, 190808, 173648, 156434, 139173, 121869, 104528, 87155,
       69756, 52335, 34899, 17452, 0, -17452, -34899, -52335,
       -69756, -87155, -104528, -121869, -139173, -156434, -173648, -190808,
       -207911, -224951, -241921, -258819, -275637, -292371, -309016, -325568,
       -342020, -358367, -374606, -390731, -406736, -422618, -438371, -453990,
       -469471, -484809, -500000, -515038, -529919, -544639, -559192, -573576,
       -587785, -601815, -615661, -629320, -642787, -656059, -669130, -681998,
       -694658, -707106, -719339, -731353, -743144, -754709, -766044, -777145,
       -788010, -798635, -809016, -819152, -829037, -838670, -848048, -857167,
       -866025, -874619, -882947, -891006, -898794, -906307, -913545, -920504,
       -927183, -933580, -939692, -945518, -951056, -956304, -961261, -965925,
       -970295, -974370, -978147, -981627, -984807, -987688, -990268, -992546,
       -994521, -996194, -997564, -998629, -999390, -999847, -1000000, -999847,
       -999390, -998629, -997564, -996194, -994521, -992546, -990268, -987688,
       -984807, -981627, -978147, -974370, -970295, -965925, -961261, -956304,
       -951056, -945518, -939692, -933580, -927183, -920504, -913545, -906307,
       -898794, -891006, -882947, -874619, -866025, -857167, -848048, -838670,
       -829037, -819152, -809016, -798635, -788010, -777145, -766044, -754709,
       -743144, -731353, -719339, -707106, -694658, -681998, -669130, -656059,
       -642787, -629320, -615661, -601815, -587785, -573576, -559192, -544639,
       -529919, -515038, -500000, -484809, -469471, -453990, -438371, -422618,
       -406736, -390731, -374606, -358367, -342020, -325568, -309016, -292371,
       -275637, -258819, -241921, -224951, -207911, -190808, -173648, -156434,
       -139173, -121869, -104528, -87155, -69756, -52335, -34899, -17452 >>

\* Python's int() on a value given in millionths: truncation toward zero.
IntOfMillionths(v) == IF v >= 0 THEN v \div 1000000 ELSE -((-v) \div 1000000)

(***************************************************************************)
(* World.update                                                            *)
(***************************************************************************)
\* "spawn_distance = randint(8, 16) * TILE_SIZE", the first draw after r.
SpawnDistance(r) == randint(r, 8, 16) * TILE_SIZE

\* "angle = randint(0, 359)", the second draw after r.
SpawnAngle(r) == randint(RandStep(r), 0, 359)

\* "sx = int(self.player.x +/- cos_angle)": the sign is the third draw.
SpawnX(px, r) ==
    IF randint(RandStep(RandStep(r)), 0, 1) = 0
    THEN IntOfMillionths(px * 1000000 + CosTable[SpawnAngle(r) + 1] * SpawnDistance(r))
    ELSE IntOfMillionths(px * 1000000 - CosTable[SpawnAngle(r) + 1] * SpawnDistance(r))

\* "sy = int(self.player.y +/- sin_angle)": the sign is the fourth draw.
SpawnY(py, r) ==
    IF randint(RandStep(RandStep(RandStep(r))), 0, 1) = 0
    THEN IntOfMillionths(py * 1000000 + SinTable[SpawnAngle(r) + 1] * SpawnDistance(r))
    ELSE IntOfMillionths(py * 1000000 - SinTable[SpawnAngle(r) + 1] * SpawnDistance(r))

\* "self.spawn_mob(sx, sy, mobs["pig"].clone())": c is the clone, made
\* before the call.
SpawnClone(c, sx, sy) == spawn_mob(c.m, sx, sy, c.mob)

\* "if not any(mob at (sx, sy)): spawn_mob(...)", m being the memory after
\* the four draws.
TrySpawn(m, sx, sy) ==
    IF \E i \in 1..Len(m.entities) : m.entities[i].x = sx /\ m.entities[i].y = sy
    THEN m
    ELSE SpawnClone(CloneMob(mobs.pig, m), sx, sy)

\* The pig spawn attempt of World.update.
SpawnAttempt(m, px, py) ==
    TrySpawn([m EXCEPT !.rng = Adv(m.rng, 4)], SpawnX(px, m.rng), SpawnY(py, m.rng))

\* A spawn phase that runs every second tick.
SpawnPhaseEven(m, pl, ticks) ==
    IF ticks % 2 = 0 THEN SpawnAttempt(m, pl.x, pl.y) ELSE m

SpawnPhase(m, pl, ticks) ==
    IF ticks % 4 = 0 THEN SpawnAttempt(m, pl.x, pl.y) ELSE m

MobsPhase(m, ticks) ==
    IF ticks % 4 = 0 THEN MoveMobs(m, 1) ELSE m

\* World.update(ticks) on the chunks and entities; pl is the Player the
\* world references (pl.cx, pl.cy are the values Player.update left).
world_update(m, pl, ticks) ==
    MobsPhase(UpdateChunks(SpawnPhase(m, pl, ticks), WindowSeq(pl.cx, pl.cy), 1, ticks),
              ticks)

DAY_TICKS == 24000

\* "self.ticks = ticks % 24000"
WorldTicks(ticks) == ticks % DAY_TICKS

\* A daylight whose night begins a thousand ticks late.
daylight_late_night(ticks) ==
    IF ticks < 3000 THEN 16 + (ticks * 239) \div 3000
    ELSE IF ticks < 16000 THEN 255
    ELSE IF ticks < 19000 THEN 255 - ((ticks - 16000) * 239 + 1999) \div 2000
    ELSE 16

\* World.daylight() when self.ticks = ticks.  int() drops the fraction of a
\* positive number: 16 + t*239/3000 is rounded down, and 255 - x, with
\* x = (t - 16000)*239/2000 >= 0, is 255 less x rounded up.
daylight(ticks) ==
    IF ticks < 3000 THEN 16 + (ticks * 239) \div 3000
    ELSE IF ticks < 16000 THEN 255
    ELSE IF ticks < 18000 THEN 255 - ((ticks - 16000) * 239 + 1999) \div 2000
    ELSE 16

(***************************************************************************)
(* Tile.hurt and Mob.hurt                                                  *)
(***************************************************************************)
\* "self.health -= damage" on the Tile object: every cell that holds the
\* object sees the new health.
DamageObj(chs, obj, damage) ==
    [c \in DOMAIN chs |-> [h \in Rows |-> [w \in Rows |->
        IF chs[c][h][w].obj = obj
        THEN [chs[c][h][w] EXCEPT !.health = Some(@[1] - damage)]
        ELSE chs[c][h][w]]]]

\* A decay that leaves stone behind, whatever the kind.
BreakTileToStone(m, tile, x, y, damage) ==
    IF tile.health[1] - damage <= 0 /\ KindOf(tile.id).parent # None
    THEN set_tile_id(m, x, y, tiles.stone.id)
    ELSE m

\* "if (self.health <= 0) and (self.parent is not None): world.set_tile(x, y, self.parent)"
BreakTile(m, tile, x, y, damage) ==
    IF tile.health[1] - damage <= 0 /\ KindOf(tile.id).parent # None
    THEN set_tile_id(m, x, y, KindOf(tile.id).parent[1])
    ELSE m

tile_hurt(m, tile, x, y, damage) ==
    IF tile.health = None THEN m
    ELSE BreakTile([m EXCEPT !.chunks = DamageObj(@, tile.obj, damage)],
                   tile, x, y, damage)

\* Mob.hurt for the entity at index i: on death world.despawn_mob(self.x, self.y).
mob_hurt(ents, i, damage) ==
    IF ents[i].health - damage <= 0
    THEN despawn_mob([ents EXCEPT ![i].health = @ - damage], ents[i].x, ents[i].y)
    ELSE [ents EXCEPT ![i].health = @ - damage]

(***************************************************************************)
(* Player (source/core/player.py)                                          *)
(***************************************************************************)
MAX_STAT == 20

NewPlayer ==
    [ x |-> 0, y |-> 0, cx |-> 0, cy |-> 0,
      health |-> MAX_STAT, energy |-> MAX_STAT, facing |-> <<0, 0>> ]

\* A max that returns its second argument whatever the first is.
MaxSecond(a, b) == b

Max(a, b) == IF a >= b THEN a ELSE b
Min(a, b) == IF a <= b THEN a ELSE b

\* A step that does not look at the tile.
SteppedThrough(pl, tile, mx, my) == [pl EXCEPT !.x = mx, !.y = my]

\* The position after "if not get_tile(mx, my).solid: self.x = mx; self.y = my".
Stepped(pl, tile, mx, my) ==
    IF KindOf(tile.id).solid THEN pl ELSE [pl EXCEPT !.x = mx, !.y = my]

\* "if fx != 0: facing = (self.x + fx, self.y) elif fy != 0: facing = (self.x, self.y + fy)"
Faced(pl, fx, fy) ==
    IF fx # 0 THEN [pl EXCEPT !.facing = <<pl.x + fx, pl.y>>]
    ELSE IF fy # 0 THEN [pl EXCEPT !.facing = <<pl.x, pl.y + fy>>]
    ELSE pl

\* Player.move after get_tile(mx, my) returned g.
Moved(g, pl, mx, my) ==
    [ m |-> g.m, pl |-> Faced(Stepped(pl, g.tile, mx, my), mx - pl.x, my - pl.y) ]

\* Player.move(mx, my): result [m, pl].
player_move(m, pl, mx, my) == Moved(get_tile(m, mx, my), pl, mx, my)

\* int(0.32 * self.MAX_STAT)
AttackCost == (32 * MAX_STAT) \div 100

ATTACK_DAMAGE == 8

\* "tile = self.world.get_tile(xd, yd); tile.hurt(self.world, xd, yd, 8)"
HitTile(g, pl, xd, yd) ==
    [ m |-> tile_hurt(g.m, g.tile, xd, yd, ATTACK_DAMAGE), pl |-> pl ]

\* "for mob in entities: if mob at (xd, yd): mob.hurt(world, 8); return"
HitMob(m, pl, xd, yd) ==
    [ m  |-> [m EXCEPT !.entities = mob_hurt(@, FirstAt(@, xd, yd), ATTACK_DAMAGE)],
      pl |-> pl ]

\* An attack that looks at the tile only, whoever stands on it.
StrikeTileOnly(m, pl, xd, yd) == HitTile(get_tile(m, xd, yd), pl, xd, yd)

\* Player.attack() once the energy was paid.
Strike(m, pl, xd, yd) ==
    IF FirstAt(m.entities, xd, yd) # 0
    THEN HitMob(m, pl, xd, yd)
    ELSE HitTile(get_tile(m, xd, yd), pl, xd, yd)

\* Player.attack(): result [m, pl].
player_attack(m, pl) ==
    IF pl.energy < AttackCost THEN [m |-> m, pl |-> pl]
    ELSE Strike(m, [pl EXCEPT !.energy = Max(0, @ - AttackCost)],
                pl.facing[1], pl.facing[2])

\* Player.swimming(): get_tile on the player's own cell; result [m, tile].
Swimming(m, pl) == get_tile(m, pl.x, pl.y)

IsFluid(tile) == tile.id \in fluids

\* "if ticks % 15 == 0": stamina drains while swimming, health regenerates.
Rule15(pl, wet, ticks) ==
    IF ticks % 15 # 0 THEN pl
    ELSE IF pl.energy > 0 /\ wet
    THEN [pl EXCEPT !.energy = Max(0, @ - 1),
                    !.health = IF Max(0, pl.energy - 1) > 10
                               THEN Min(MAX_STAT, @ + 1) ELSE @]
    ELSE [pl EXCEPT !.health = IF pl.energy > 10 THEN Min(MAX_STAT, @ + 1) ELSE @]

\* "if (ticks % 30 == 0) and (self.energy < 1): if self.swimming(): health - 1"
Rule30(pl, wet, ticks) ==
    IF ticks % 30 = 0 /\ pl.energy < 1 /\ wet
    THEN [pl EXCEPT !.health = Max(0, @ - 1)] ELSE pl

\* A stamina rule that regenerates every sixth tick only.
Rule3Slow(pl, wet, ticks) ==
    IF ticks % 6 = 0 /\ pl.energy < MAX_STAT /\ ~wet
    THEN [pl EXCEPT !.energy = Min(MAX_STAT, @ + 1)] ELSE pl

\* "if (ticks % 3 == 0) and (self.energy < MAX_STAT): if not self.swimming(): energy + 1"
Rule3(pl, wet, ticks) ==
    IF ticks % 3 = 0 /\ pl.energy < MAX_STAT /\ ~wet
    THEN [pl EXCEPT !.energy = Min(MAX_STAT, @ + 1)] ELSE pl

\* "self.cx = self.x // CHUNK_SIZE; self.cy = self.y // CHUNK_SIZE"
Rechunked(pl) == [pl EXCEPT !.cx = ChunkCoord(pl.x), !.cy = ChunkCoord(pl.y)]

\* swimming() is reached only through the guards that precede it: pl0 is
\* the player before the rules, pl1 after the ticks % 15 rule.
SwimCalled(pl0, pl1, ticks) ==
    \/ (ticks % 15 = 0 /\ pl0.energy > 0)
    \/ (ticks % 30 = 0 /\ pl1.energy < 1)
    \/ (ticks % 3 = 0 /\ pl1.energy < MAX_STAT)

Ruled(m, sw, pl0, pl1, ticks) ==
    [ m  |-> IF SwimCalled(pl0, pl1, ticks) THEN sw.m ELSE m,
      pl |-> Rule3(Rule30(pl1, IsFluid(sw.tile), ticks), IsFluid(sw.tile), ticks) ]

\* Player.update(ticks) with sw the result swimming() has when it is
\* called: result [m, pl].
PlayerRules(m, sw, pl, ticks) ==
    Ruled(m, sw, Rechunked(pl), Rule15(Rechunked(pl), IsFluid(sw.tile), ticks), ticks)

player_update(m, pl, ticks) == PlayerRules(m, Swimming(m, pl), pl, ticks)

(***************************************************************************)
(* World.initialize                                                        *)
(***************************************************************************)
\* range(xp - 3, xp + 3) x range(yp - 3, yp + 3), cx outer and cy inner:
\* the range ends before xp + 3, so each axis has 2 * 3 values.
INIT_RADIUS == 3

InitSeq(xp, yp) ==
    [k \in 1..((2 * INIT_RADIUS) * (2 * INIT_RADIUS)) |->
        << xp - INIT_RADIUS + ((k - 1) \div (2 * INIT_RADIUS)),
           yp - INIT_RADIUS + ((k - 1) % (2 * INIT_RADIUS)) >>]

RECURSIVE LoadChunks(_, _, _)
LoadChunks(m, cs, k) ==
    IF k > Len(cs) \/ m.obj < 0 THEN m
    ELSE LoadChunks(load_chunk(m, cs[k][1], cs[k][2]), cs, k + 1)

\* "self.seed = worldseed; seed(self.seed); self.perm = Perlin.permutation()"
Seeded(m, worldseed, pm) ==
    [m EXCEPT !.seed = worldseed, !.perm = pm.perm, !.rng = pm.rng]

\* "self.player.initialize(self, self.sx, self.sy)"
Enter(m, pl) == player_move(m, pl, m.sx, m.sy)

\* An initialize that does not seed the random source: the permutation is
\* shuffled from the state the process happens to be in.
world_initialize_unseeded(m, pl, worldseed) ==
    Enter(LoadChunks(Seeded(m, worldseed, Permutation(m.rng)),
                     InitSeq(ChunkCoord(pl.x), ChunkCoord(pl.y)), 1),
          pl)

\* World.initialize(worldseed): result [m, pl].
world_initialize(m, pl, worldseed) ==
    Enter(LoadChunks(Seeded(m, worldseed, Permutation(SeedState(worldseed))),
                     InitSeq(ChunkCoord(pl.x), ChunkCoord(pl.y)), 1),
          pl)

(***************************************************************************)
(* Saveload (source/utils/saveload.py)                                     *)
(***************************************************************************)
\* "'id': mob.id, 'x': mob.x, 'y': mob.y"
SavedMob(mob) == [id |-> mob.id, x |-> mob.x, y |-> mob.y]

\* A save that writes each chunk transposed.
SavedChunkTransposed(data) == [h \in Rows |-> [w \in Rows |-> data[w][h].id]]

\* "[[tile.id for tile in row] for row in data]"
SavedChunk(data) == [h \in Rows |-> [w \in Rows |-> data[h][w].id]]

\* The record Saveload.save pickles; ut is updater.ticks.
save_record(m, pl, ut) ==
    [ player   |-> [x |-> pl.x, y |-> pl.y, health |-> pl.health,
                    energy |-> pl.energy, facing |-> pl.facing],
      chunks   |-> [c \in DOMAIN m.chunks |-> SavedChunk(m.chunks[c])],
      entities |-> [i \in 1..Len(m.entities) |-> SavedMob(m.entities[i])],
      worldSeed  |-> m.seed,
      worldPerm  |-> m.perm,
      worldSpawn |-> <<m.sx, m.sy>>,
      worldTicks |-> ut ]

\* The number of chunks rebuilt before chunk c (any fixed order of the dict).
Rank(cs, c) ==
    Cardinality({ d \in cs : d[1] < c[1] \/ (d[1] = c[1] /\ d[2] < c[2]) })

\* A rebuild that gives every destructible tile a durability of 1.
RebuildChunkWorn(data, base) ==
    [h \in Rows |-> [w \in Rows |->
        [id |-> data[h][w],
         health |-> IF KindOf(data[h][w]).health = None THEN None ELSE Some(1),
         obj |-> base + h * CHUNK_SIZE + w]]]

\* "[[tiles[Game.tile[id]].clone() for id in row] for row in data]": the
\* clones of one chunk are objects base, base + 1, ...
RebuildChunk(data, base) ==
    [h \in Rows |-> [w \in Rows |->
        [id |-> data[h][w], health |-> KindOf(data[h][w]).health,
         obj |-> base + h * CHUNK_SIZE + w]]]

RebuildChunks(saved, obj) ==
    [c \in DOMAIN saved |->
        RebuildChunk(saved[c], obj + Rank(DOMAIN saved, c) * CHUNK_SIZE * CHUNK_SIZE)]

\* "mobs[Game.mobs[data['id']]].clone()" followed by the position assignment.
RebuildMob(data, r) ==
    [ id |-> data.id, health |-> mobs[Game_mobs[data.id + 1]].health,
      x |-> data.x, y |-> data.y, facing |-> ChoiceDirection(r) ]

\* The mobs are cloned in list order, one draw each, starting in state r.
RebuildMobs(saved, r) ==
    [i \in 1..Len(saved) |-> RebuildMob(saved[i], Adv(r, i - 1))]

\* The world after the assignments of Saveload.load (lines 79-103).
Restored(m, rec) ==
    [m EXCEPT
       !.seed = rec.worldSeed,
       !.perm = rec.worldPerm,
       !.sx = rec.worldSpawn[1],
       !.sy = rec.worldSpawn[2],
       !.chunks = RebuildChunks(rec.chunks, m.obj),
       !.entities = RebuildMobs(rec.entities,
                        Adv(m.rng, 2 * CHUNK_SIZE * CHUNK_SIZE * Cardinality(DOMAIN rec.chunks))),
       !.rng = Adv(m.rng, 2 * CHUNK_SIZE * CHUNK_SIZE * Cardinality(DOMAIN rec.chunks)
                          + Len(rec.entities)),
       !.obj = m.obj + CHUNK_SIZE * CHUNK_SIZE * Cardinality(DOMAIN rec.chunks)]

\* The player after the assignments of Saveload.load (lines 73-77).
RestoredPlayer(pl, rec) ==
    [pl EXCEPT !.x = rec.player.x, !.y = rec.player.y,
               !.health = rec.player.health, !.energy = rec.player.energy,
               !.facing = rec.player.facing]

\* "player.initialize(world, player.x, player.y)"
Reenter(m, pl) == player_move(m, pl, pl.x, pl.y)

\* "updater.ticks = game_data['worldTicks']"
Loaded(r, rec) == [m |-> r.m, pl |-> r.pl, ticks |-> rec.worldTicks]

\* Saveload.load on record rec: result [m, pl, ticks].
load_record(m, pl, rec) ==
    Loaded(Reenter(Restored(m, rec), RestoredPlayer(pl, rec)), rec)

\* The keys of the record in the order Saveload.load reads them.
LoadKeys ==
    << "player", "worldSeed", "worldPerm", "worldSpawn", "worldTicks",
       "chunks", "entities" >>

\* The number of keys load reads before game_data[key] raises KeyError
\* (all of them if the record is complete).
KeysRead(rec) ==
    Cardinality({ n \in 1..Len(LoadKeys) :
                    \A j \in 1..n : LoadKeys[j] \in DOMAIN rec })

\* Saveload.load on a record whose key number n + 1 is missing: the
\* assignments made for the first n keys stay (lines 73-92), the rest of
\* the method is not run.  Result [m, pl, ticks].
load_interrupted(m, pl, ut, rec, n) ==
    [ m  |-> [m EXCEPT
                !.seed = IF n >= 2 THEN rec.worldSeed ELSE @,
                !.perm = IF n >= 3 THEN rec.worldPerm ELSE @,
                !.sx = IF n >= 4 THEN rec.worldSpawn[1] ELSE @,
                !.sy = IF n >= 4 THEN rec.worldSpawn[2] ELSE @,
                !.chunks = IF n >= 6 THEN RebuildChunks(rec.chunks, m.obj) ELSE @,
                !.rng = IF n >= 6
                        THEN Adv(@, 2 * CHUNK_SIZE * CHUNK_SIZE * Cardinality(DOMAIN rec.chunks))
                        ELSE @,
                !.obj = IF n >= 6
                        THEN @ + CHUNK_SIZE * CHUNK_SIZE * Cardinality(DOMAIN rec.chunks)
                        ELSE @],
      pl |-> IF n >= 1 THEN RestoredPlayer(pl, rec) ELSE pl,
      ticks |-> IF n >= 5 THEN rec.worldTicks ELSE ut ]

(***************************************************************************)
(* Updater.update (source/utils/updater.py).  key is the key combination   *)
(* held during the tick.                                                   *)
(***************************************************************************)
Keys == { "none", "up", "down", "left", "right", "c", "shift_s", "shift_l", "shift_r" }

\* The objects one Updater.update call works on.
Frame(m, pl, ut, f) == [m |-> m, pl |-> pl, ticks |-> ut, file |-> f]

WithMove(g, r) == [g EXCEPT !.m = r.m, !.pl = r.pl]

\* Saveload.load inside the tick: the record's ticks replace updater.ticks.
WithLoad(g, r) == [g EXCEPT !.m = r.m, !.pl = r.pl, !.ticks = r.ticks]

\* The key handling of lines 38-69.
KeyAction(g, key) ==
    CASE key = "up"      -> WithMove(g, player_move(g.m, g.pl, g.pl.x, g.pl.y - 1))
      [] key = "down"    -> WithMove(g, player_move(g.m, g.pl, g.pl.x, g.pl.y + 1))
      [] key = "left"    -> WithMove(g, player_move(g.m, g.pl, g.pl.x - 1, g.pl.y))
      [] key = "right"   -> WithMove(g, player_move(g.m, g.pl, g.pl.x + 1, g.pl.y))
      [] key = "c"       -> WithMove(g, player_attack(g.m, g.pl))
      [] key = "shift_s" -> [g EXCEPT !.file = Some(save_record(g.m, g.pl, g.ticks))]
      [] key = "shift_l" -> WithLoad(g, load_record(g.m, g.pl, g.file[1]))
      [] key = "shift_r" -> WithMove(g, player_move(g.m, g.pl, g.m.sx, g.m.sy))
      [] OTHER           -> g

\* "timer = 8 if swimming else 4; if ticks % timer == 0: <keys>", sw being
\* the result of swimming().
Timer(tile) == IF IsFluid(tile) THEN 8 ELSE 4

Keyed(sw, pl, ut, f, key) ==
    IF ut % Timer(sw.tile) = 0 THEN KeyAction(Frame(sw.m, pl, ut, f), key)
    ELSE Frame(sw.m, pl, ut, f)

\* "self.world.update(self.ticks)"
Ticked(g) == [g EXCEPT !.m = world_update(g.m, g.pl, g.ticks)]

\* "self.player.update(self.ticks); self.ticks += 1"
Finished(g) == [WithMove(g, player_update(g.m, g.pl, g.ticks)) EXCEPT !.ticks = @ + 1]

\* Updater.update(): result [m, pl, ticks, file]; world.ticks becomes
\* WorldTicks of the ticks world.update was called with.
updater_update(m, pl, ut, f, key) ==
    Finished(Ticked(Keyed(Swimming(m, pl), pl, ut, f, key)))

(***************************************************************************)
(* Bounds and the inputs the operations are called with                    *)
(***************************************************************************)
\* Operations performed on a loaded world in Spec.
MaxOps == 2

\* Edits and automaton updates in SpecEdit.
MaxEdits == 3

\* spawn_mob and update calls in SpecMobs.
MaxSpawns == 18

\* Operations (restarts included) in SpecGen.
MaxGenOps == 4

\* Operations (restarts included) in SpecSave.
MaxSaveOps == 4

\* World seeds typed into the start menu: one per terrain layout
\* (seed 0 gives layout 2, seed 1 layout 1, seed 2 layout 0, seed 3 layout 3).
Seeds == { 0, 1, 2, 3 }

\* States of the random source at process start (OS entropy).
Entropy == { 11, 23 }

(***************************************************************************)
(* The state machine.  Each action is one call of one operation on the    *)
(* live objects; `last` records the call.                                  *)
(***************************************************************************)
Mem ==
    [ chunks |-> chunks, entities |-> entities, seed |-> wseed, perm |-> perm,
      sx |-> spawn[1], sy |-> spawn[2], rng |-> rng, obj |-> nextObj, gen |-> gen ]

SetMem(m) ==
    /\ chunks' = m.chunks
    /\ entities' = m.entities
    /\ wseed' = m.seed
    /\ perm' = m.perm
    /\ spawn' = <<m.sx, m.sy>>
    /\ rng' = m.rng
    /\ nextObj' = m.obj
    /\ gen' = m.gen

\* The result [m, pl] of a player operation becomes the state.
SetBoth(r) == SetMem(r.m) /\ player' = r.pl

Did(op, args) == last' = [op |-> op, args |-> args]

\* main(): Player(), World(player), Updater(world, player); no save file yet.
Init ==
    /\ chunks = <<>>
    /\ entities = <<>>
    /\ wseed = None
    /\ perm = None
    /\ spawn = <<0, 0>>
    /\ wticks = 0
    /\ loaded = FALSE
    /\ player = NewPlayer
    /\ uticks = 0
    /\ rng \in Entropy
    /\ nextObj = 0
    /\ file = None
    /\ gen = <<>>
    /\ ops = 0
    /\ twin = None
    /\ last = [op |-> "start", args |-> <<>>]

\* StartMenu: world.initialize(world_seed), offered while the world is not loaded.
Initialize(s) ==
    /\ ~loaded
    /\ SetBoth(world_initialize(Mem, player, s))
    /\ loaded' = TRUE
    /\ Did("initialize", <<s>>)
    /\ UNCHANGED <<wticks, uticks, file, ops>>

\* One more operation on a loaded world, at most `bound` of them.
Op(bound) == loaded /\ ops < bound /\ ops' = ops + 1

\* The step is taken by the one process there is.
Alone == twin' = twin

\* load_chunk(cx, cy); the call record tells whether the chunk was present.
LoadChunk(c) ==
    /\ SetMem(load_chunk(Mem, c[1], c[2]))
    /\ Did("load_chunk", <<c[1], c[2], c \in DOMAIN chunks>>)
    /\ UNCHANGED <<wticks, loaded, player, uticks, file>>

\* The call record of get_tile holds the Tile returned and whether the
\* chunk was present.
GotTile(g, c) ==
    /\ SetMem(g.m)
    /\ Did("get_tile", <<c[1], c[2], g.tile, DOMAIN g.m.chunks = DOMAIN chunks>>)

GetTile(c) ==
    /\ GotTile(get_tile(Mem, c[1], c[2]), c)
    /\ UNCHANGED <<wticks, loaded, player, uticks, file>>

SetTileId(c, id) ==
    /\ SetMem(set_tile_id(Mem, c[1], c[2], id))
    /\ Did("set_tile", <<c[1], c[2], id>>)
    /\ UNCHANGED <<wticks, loaded, player, uticks, file>>

SetFrom(g, c) == SetMem(set_tile(g.m, c[1], c[2], g.tile))

\* set_tile(x, y, tile) with the Tile that get_tile returns for cell src.
SetTileObj(c, src) ==
    /\ SetFrom(get_tile(Mem, src[1], src[2]), c)
    /\ Did("set_tile_obj", <<c[1], c[2], src>>)
    /\ UNCHANGED <<wticks, loaded, player, uticks, file>>

SpawnCloned(cl, c) == SetMem(spawn_mob(cl.m, c[1], c[2], cl.mob))

\* spawn_mob(x, y, mobs[kind].clone())
SpawnMob(c, kind) ==
    /\ SpawnCloned(CloneMob(mobs[kind], Mem), c)
    /\ Did("spawn_mob", <<c[1], c[2], kind>>)
    /\ UNCHANGED <<wticks, loaded, player, uticks, file>>

\* world.update(t)
WorldUpdate(t) ==
    /\ SetMem(world_update(Mem, player, t))
    /\ wticks' = WorldTicks(t)
    /\ Did("update", <<t>>)
    /\ UNCHANGED <<loaded, player, uticks, file>>

\* player.move(x + dx, y + dy)
PlayerMove(d) ==
    /\ SetBoth(player_move(Mem, player, player.x + d[1], player.y + d[2]))
    /\ Did("move", d)
    /\ UNCHANGED <<wticks, loaded, uticks, file>>

\* player.attack()
PlayerAttack ==
    /\ SetBoth(player_attack(Mem, player))
    /\ Did("attack", <<>>)
    /\ UNCHANGED <<wticks, loaded, uticks, file>>

\* The result of Updater.update becomes the state; world.update ran with
\* the ticks the call ended with, less the final increment.
SetFrame(r) ==
    /\ SetBoth(r)
    /\ uticks' = r.ticks
    /\ file' = r.file
    /\ wticks' = WorldTicks(r.ticks - 1)

\* One frame of the main loop: updater.update() with `key` held.  (Loading
\* without a save file raises FileNotFoundError and ends the process.)
UpdaterUpdate(key) ==
    /\ key = "shift_l" => file # None
    /\ SetFrame(updater_update(Mem, player, uticks, file, key))
    /\ Did("frame", <<key>>)
    /\ UNCHANGED <<loaded>>

\* A save that strips the live tiles to their ids: every cell loses its
\* durability.
SaveStripping ==
    /\ file' = Some(save_record(Mem, player, uticks))
    /\ chunks' = [c \in DOMAIN chunks |-> [h \in Rows |-> [w \in Rows |->
                     [chunks[c][h][w] EXCEPT !.health = None]]]]
    /\ Did("save", <<>>)
    /\ UNCHANGED <<entities, wseed, perm, spawn, wticks, loaded, player,
                   uticks, rng, nextObj, gen>>

\* Saveload.save(updater, world, player)
Save ==
    /\ file' = Some(save_record(Mem, player, uticks))
    /\ Did("save", <<>>)
    /\ UNCHANGED <<chunks, entities, wseed, perm, spawn, wticks, loaded, player,
                   uticks, rng, nextObj, gen>>

SetLoaded(r) == SetBoth(r) /\ uticks' = r.ticks

\* Saveload.load(updater, world, player) with the save file present.
Load ==
    /\ file # None
    /\ SetLoaded(load_record(Mem, player, file[1]))
    /\ loaded' = TRUE
    /\ Did("load", <<>>)
    /\ UNCHANGED <<wticks, file>>

\* The memory of a new process whose random source starts in state e.
Fresh(e) ==
    [ chunks |-> <<>>, entities |-> <<>>, seed |-> None, perm |-> None,
      sx |-> 0, sy |-> 0, rng |-> e, obj |-> 0, gen |-> gen ]

\* The process ends and main() runs again: new Player, World and Updater,
\* then Saveload.load if the save file exists.
Restart(e) ==
    /\ IF file = None
       THEN /\ SetMem(Fresh(e))
            /\ player' = NewPlayer
            /\ uticks' = 0
            /\ loaded' = FALSE
       ELSE /\ SetLoaded(load_record(Fresh(e), NewPlayer, file[1]))
            /\ loaded' = TRUE
    /\ wticks' = 0
    /\ Did("restart", <<e>>)
    /\ UNCHANGED <<file>>

\* The world-store operations, called in any order.
Next ==
    \/ \E s \in Seeds : Alone /\ Initialize(s)
    \/ \E c \in { <<0, 0>>, <<3, 0>> } : Alone /\ Op(MaxOps) /\ LoadChunk(c)
    \/ \E c \in { <<-9, -1>>, <<-25, -1>>, <<24, 0>> } : Alone /\ Op(MaxOps) /\ GetTile(c)
    \/ \E c \in { <<7, 0>>, <<-9, -1>>, <<-25, -1>> } : Alone /\ Op(MaxOps) /\ SetTileId(c, tiles.hole.id)
    \/ Alone /\ Op(MaxOps) /\ SetTileObj(<<7, 0>>, <<-9, -1>>)
    \/ Alone /\ Op(MaxOps) /\ SpawnMob(<<1, 0>>, "pig")
    \/ \E t \in { 0, 4 } : Alone /\ Op(MaxOps) /\ WorldUpdate(t)
    \/ \E d \in { <<1, 0>>, <<0, -1>> } : Alone /\ Op(MaxOps) /\ PlayerMove(d)
    \/ Alone /\ Op(MaxOps) /\ PlayerAttack

Spec == Init /\ [][Next]_vars

\* Edits of cells around the sea channel and the chunk border x = 8,
\* followed by automaton updates.
NextEdit ==
    \/ \E s \in Seeds : Alone /\ Initialize(s)
    \/ \E c \in { <<5, 0>>, <<7, 0>>, <<8, 0>> } : Alone /\ Op(MaxEdits) /\ SetTileId(c, tiles.hole.id)
    \/ Alone /\ Op(MaxEdits) /\ SetTileId(<<7, 0>>, tiles.dirt.id)
    \/ \E t \in { 8, 32 } : Alone /\ Op(MaxEdits) /\ WorldUpdate(t)

SpecEdit == Init /\ [][NextEdit]_vars

\* spawn_mob and update calls; the ticks update is called with increase.
NextMobs ==
    \/ \E s \in Seeds : Alone /\ Initialize(s)
    \/ Alone /\ Op(MaxSpawns) /\ SpawnMob(<<1, 0>>, "sheep")
    \/ \E t \in { 4, 8 } : Alone /\ Op(MaxSpawns) /\ t > wticks /\ WorldUpdate(t)

SpecMobs == Init /\ [][NextMobs]_vars

\* Chunk generation in processes started again with the same or another seed.
NextGen ==
    \/ \E s \in Seeds : Alone /\ Initialize(s)
    \/ Alone /\ Op(MaxGenOps) /\ LoadChunk(<<3, 0>>)
    \/ Alone /\ Op(MaxGenOps) /\ SetTileId(<<7, 0>>, tiles.hole.id)
    \/ Alone /\ Op(MaxGenOps) /\ Restart(23)

SpecGen == Init /\ [][NextGen]_vars

\* Frames of the main loop, spawns, saves, loads and restarts.
NextSave ==
    \/ \E s \in Seeds : Alone /\ Initialize(s)
    \/ \E key \in { "right", "c" } : Alone /\ Op(MaxSaveOps) /\ UpdaterUpdate(key)
    \/ Alone /\ Op(MaxSaveOps) /\ SpawnMob(<<1, 0>>, "pig")
    \/ Alone /\ Op(MaxSaveOps) /\ Save
    \/ Alone /\ Op(MaxSaveOps) /\ Load
    \/ Alone /\ Op(MaxSaveOps) /\ file # None /\ Restart(11)

SpecSave == Init /\ [][NextSave]_vars


(***************************************************************************)
(* Two processes.  The second one starts with its own random source,      *)
(* initializes a fresh world with the same seed and is given the same      *)
(* calls; twin holds its world memory and its player.                      *)
(***************************************************************************)
\* Operations performed on the two worlds in SpecTwin.
MaxTwinOps == 2

\* The twin after its own World.initialize; entropy records the states the
\* two random sources started in.
TwinOf(w, e) == Some([m |-> w.m, pl |-> w.pl, entropy |-> <<rng, e>>])

TwinStart(s, e) == twin' = TwinOf(world_initialize(Fresh(e), NewPlayer, s), e)

\* The twin's world after a world operation, its player after a player one.
TwinWorld(m) == twin' = Some([twin[1] EXCEPT !.m = m])

TwinBoth(r) == twin' = Some([twin[1] EXCEPT !.m = r.m, !.pl = r.pl])

NextTwin ==
    \/ \E s \in Seeds, e \in Entropy : Initialize(s) /\ TwinStart(s, e)
    \/ /\ Op(MaxTwinOps) /\ LoadChunk(<<3, 0>>)
       /\ TwinWorld(load_chunk(twin[1].m, 3, 0))
    \/ /\ Op(MaxTwinOps) /\ SetTileId(<<7, 0>>, tiles.hole.id)
       /\ TwinWorld(set_tile_id(twin[1].m, 7, 0, tiles.hole.id))
    \/ \E t \in { 0, 8 } :
          /\ Op(MaxTwinOps) /\ WorldUpdate(t)
          /\ TwinWorld(world_update(twin[1].m, twin[1].pl, t))
    \/ /\ Op(MaxTwinOps) /\ PlayerMove(<<1, 0>>)
       /\ TwinBoth(player_move(twin[1].m, twin[1].pl, twin[1].pl.x + 1, twin[1].pl.y))
    \/ /\ Op(MaxTwinOps) /\ PlayerAttack
       /\ TwinBoth(player_attack(twin[1].m, twin[1].pl))

SpecTwin == Init /\ [][NextTwin]_vars

(***************************************************************************)
(* The player's calls next to a cell that is edited and occupied.          *)
(***************************************************************************)
\* Operations after initialize in SpecPlayer.
MaxPlayerOps == 4

NextPlayer ==
    \/ \E s \in { 1, 2 } : Alone /\ Initialize(s)
    \/ Alone /\ Op(MaxPlayerOps) /\ SetTileId(<<2, 0>>, tiles.stone.id)
    \/ Alone /\ Op(MaxPlayerOps) /\ SpawnMob(<<2, 0>>, "pig")
    \/ \E d \in { <<1, 0>>, <<0, 1>> } : Alone /\ Op(MaxPlayerOps) /\ PlayerMove(d)
    \/ Alone /\ Op(MaxPlayerOps) /\ PlayerAttack

SpecPlayer == Init /\ [][NextPlayer]_vars

(***************************************************************************)
(* Loading a save file that may lack a key.                                *)
(***************************************************************************)
\* Operations after initialize in SpecLoad.
MaxLoadOps == 4

\* The file on disk is replaced by one whose record lacks key k (written by
\* another version of the program, or cut short).
Damage(k) ==
    /\ file # None
    /\ k \in DOMAIN file[1]
    /\ file' = Some([f \in (DOMAIN file[1]) \ {k} |-> file[1][f]])
    /\ Did("damage", <<k>>)
    /\ UNCHANGED <<chunks, entities, wseed, perm, spawn, wticks, loaded, player,
                   uticks, rng, nextObj, gen>>

\* Saveload.load raises KeyError: world.loaded = True is not reached.
LoadDamaged ==
    /\ file # None
    /\ KeysRead(file[1]) < Len(LoadKeys)
    /\ SetLoaded(load_interrupted(Mem, player, uticks, file[1], KeysRead(file[1])))
    /\ Did("load_failed", <<KeysRead(file[1])>>)
    /\ UNCHANGED <<wticks, loaded, file>>

\* The file holds every key load reads.
Complete == file # None /\ KeysRead(file[1]) = Len(LoadKeys)

NextLoad ==
    \/ Alone /\ Initialize(2)
    \/ Alone /\ Op(MaxLoadOps) /\ PlayerMove(<<0, 1>>)
    \/ Alone /\ Op(MaxLoadOps) /\ SetTileId(<<7, 0>>, tiles.hole.id)
    \/ Alone /\ Op(MaxLoadOps) /\ Save
    \/ \E k \in { "player", "worldSeed", "worldTicks", "entities" } :
          Alone /\ Op(MaxLoadOps) /\ Damage(k)
    \/ Alone /\ Op(MaxLoadOps) /\ LoadDamaged
    \/ Alone /\ Op(MaxLoadOps) /\ Complete /\ Load
    \/ Alone /\ Op(MaxLoadOps) /\ file = None /\ Restart(11)

SpecLoad == Init /\ [][NextLoad]_vars

(***************************************************************************)
(* The day: world.update at ticks around the breakpoints of daylight().    *)
(***************************************************************************)
\* Updates after initialize in SpecDay.
MaxDayOps == 2

\* updater.ticks values passed to world.update: the first and last tick of
\* each part of the day, ticks inside the two ramps, and ticks of later days.
DayTicks ==
    { 0, 1, 1500, 2999, 3000, 15999, 16000, 16001, 17000, 17999, 18000, 18001,
      23999, 24000, 26999, 41000, 47999 }

NextDay ==
    \/ \E s \in { 0, 2 } : Alone /\ Initialize(s)
    \/ \E t \in DayTicks : Alone /\ Op(MaxDayOps) /\ WorldUpdate(t)

SpecDay == Init /\ [][NextDay]_vars

(***************************************************************************)
(* The player's stats: attacks spend energy, updates drain and restore.    *)
(***************************************************************************)
\* Calls after initialize in SpecStats: three attacks and two updates in
\* water bring the energy to 0, twenty more updates the health, one more
\* meets the lower bound.
MaxStatOps == 26

\* player.update(t)
PlayerUpdate(t) ==
    /\ SetBoth(player_update(Mem, player, t))
    /\ Did("player_update", <<t>>)
    /\ UNCHANGED <<wticks, loaded, uticks, file>>

NextStats ==
    \/ \E s \in { 1, 2 } : Alone /\ Initialize(s)
    \/ Alone /\ Op(MaxStatOps) /\ PlayerAttack
    \/ \E t \in { 3, 30 } : Alone /\ Op(MaxStatOps) /\ PlayerUpdate(t)

SpecStats == Init /\ [][NextStats]_vars

(***************************************************************************)
(* The tile automaton called chunk by chunk.                               *)
(***************************************************************************)
\* Operations after initialize in SpecTiles.
MaxTileOps == 3

\* The two calls World.update makes: (target, replacement, influences).
TileRules ==
    [ water |-> [target |-> "hole", parent |-> "river", influences |-> WaterInfluences],
      grass |-> [target |-> "dirt", parent |-> "grass", influences |-> GrassInfluences] ]

\* update_tiles(cx, cy, target, replacement, influences)
UpdateTiles(c, rule) ==
    /\ SetMem(update_tiles(Mem, c[1], c[2], tiles[TileRules[rule].target],
                           tiles[TileRules[rule].parent], TileRules[rule].influences))
    /\ Did("update_tiles", <<c, tiles[TileRules[rule].target].id,
                             tiles[TileRules[rule].parent].id, TileRules[rule].influences>>)
    /\ UNCHANGED <<wticks, loaded, player, uticks, file>>

NextTiles ==
    \/ \E s \in { 0, 3 } : Alone /\ Initialize(s)
    \/ \E c \in { <<0, 0>>, <<1, 0>>, <<7, 0>> } :
          Alone /\ Op(MaxTileOps) /\ SetTileId(c, tiles.hole.id)
    \/ Alone /\ Op(MaxTileOps) /\ SetTileId(<<1, 0>>, tiles.dirt.id)
    \/ \E rule \in { "water", "grass" } :
          Alone /\ Op(MaxTileOps) /\ UpdateTiles(<<0, 0>>, rule)
    \/ Alone /\ Op(MaxTileOps) /\ UpdateTiles(<<-1, 0>>, "water")

SpecTiles == Init /\ [][NextTiles]_vars

(***************************************************************************)
(* spawn_mob called until the entity list is full, on a cell that may have *)
(* been turned to stone first.                                             *)
(***************************************************************************)
\* Operations after initialize in SpecSpawn: seventeen spawns fill the list,
\* the next one meets the cap.
MaxSpawnOps == 18

NextSpawn ==
    \/ \E s \in Seeds : Alone /\ Initialize(s)
    \/ Alone /\ Op(MaxSpawnOps) /\ ops = 0 /\ SetTileId(<<1, 0>>, tiles.stone.id)
    \/ Alone /\ Op(MaxSpawnOps) /\ SpawnMob(<<1, 0>>, "pig")

SpecSpawn == Init /\ [][NextSpawn]_vars

(***************************************************************************)
(* The entity list: mobs spawned on two cells, moved, hurt and despawned.  *)
(***************************************************************************)
\* Operations after initialize in SpecHerd.
MaxHerdOps == 4

\* world.despawn_mob(x, y)
DespawnMob(c) ==
    /\ SetMem([Mem EXCEPT !.entities = despawn_mob(@, c[1], c[2])])
    /\ Did("despawn_mob", c)
    /\ UNCHANGED <<wticks, loaded, player, uticks, file>>

\* world.entities[i].move(world)
MobMove(i) ==
    /\ i \in 1..Len(entities)
    /\ SetMem(mob_move(Mem, i))
    /\ Did("mob_move", <<i>>)
    /\ UNCHANGED <<wticks, loaded, player, uticks, file>>

\* world.entities[i].hurt(world, damage)
MobHurt(i, damage) ==
    /\ i \in 1..Len(entities)
    /\ SetMem([Mem EXCEPT !.entities = mob_hurt(@, i, damage)])
    /\ Did("mob_hurt", <<i, damage>>)
    /\ UNCHANGED <<wticks, loaded, player, uticks, file>>

NextHerd ==
    \/ \E s \in { 0, 2 } : Alone /\ Initialize(s)
    \/ \E k \in { "pig", "sheep" } : Alone /\ Op(MaxHerdOps) /\ SpawnMob(<<2, 0>>, k)
    \/ Alone /\ Op(MaxHerdOps) /\ SpawnMob(<<3, 0>>, "pig")
    \/ Alone /\ Op(MaxHerdOps) /\ DespawnMob(<<2, 0>>)
    \/ \E i \in { 1, 2 } : Alone /\ Op(MaxHerdOps) /\ MobMove(i)
    \/ \E i \in { 1, 2 } : Alone /\ Op(MaxHerdOps) /\ MobHurt(i, 20)
    \/ Alone /\ Op(MaxHerdOps) /\ PlayerAttack

SpecHerd == Init /\ [][NextHerd]_vars

(***************************************************************************)
(* Tiles hurt after the automaton has replaced cells.                      *)
(***************************************************************************)
\* Operations after initialize in SpecHurt.
MaxHurtOps == 4

\* world.get_tile(x, y).hurt(world, x, y, 8)
TileHurt(c) ==
    /\ SetMem(HitTile(get_tile(Mem, c[1], c[2]), player, c[1], c[2]).m)
    /\ Did("tile_hurt", c)
    /\ UNCHANGED <<wticks, loaded, player, uticks, file>>

NextHurt ==
    \/ \E s \in { 0, 2 } : Alone /\ Initialize(s)
    \/ \E c \in { <<1, 0>>, <<3, 0>> } :
          Alone /\ Op(MaxHurtOps) /\ SetTileId(c, tiles.dirt.id)
    \/ Alone /\ Op(MaxHurtOps) /\ SetTileId(<<5, 0>>, tiles.stone.id)
    \/ Alone /\ Op(MaxHurtOps) /\ UpdateTiles(<<0, 0>>, "grass")
    \/ \E c \in { <<1, 0>>, <<3, 0>>, <<5, 0>> } :
          Alone /\ Op(MaxHurtOps) /\ TileHurt(c)

SpecHurt == Init /\ [][NextHurt]_vars

(***************************************************************************)
(* The biome classification of load_chunk on its own: elevation, humidity  *)
(* and temperature in hundredths, the rolls drawn from state r.            *)
(***************************************************************************)
\* Elevations on, next to and between the band thresholds.
BandElevations ==
    { 0, 27, 28, 29, 31, 32, 33, 41, 42, 43, 59, 60, 61, 76, 174, 175, 194, 195, 250 }

\* "current_tile = tiles[...].clone()" chosen for one cell.
ClassifyCell(e, h, t, r) ==
    /\ Did("classify", <<e, h, t, r, Biome(e, h, t, r).n>>)
    /\ UNCHANGED <<chunks, entities, wseed, perm, spawn, wticks, loaded, player,
                   uticks, rng, nextObj, file, gen, ops>>

NextBiome ==
    \E e \in BandElevations, h \in { 20, 50, 80 }, t \in { 10, 40, 60, 80, 95 },
       r \in Entropy : Alone /\ ClassifyCell(e, h, t, r)

SpecBiome == Init /\ [][NextBiome]_vars

(***************************************************************************)
(* World.initialize called on a World that has been initialized before:    *)
(* the operation as the class offers it (the start menu calls it once per  *)
(* process, on the world main() has just constructed).                     *)
(***************************************************************************)
MaxAgainOps == 3

\* World.initialize(s) on the live world, whatever it holds.
Reinitialize(s) ==
    /\ SetBoth(world_initialize(Mem, player, s))
    /\ Did("initialize", <<s>>)
    /\ UNCHANGED <<wticks, uticks, file, loaded>>

NextAgain ==
    \/ \E s \in Seeds : Alone /\ Initialize(s)
    \/ Alone /\ Op(MaxAgainOps) /\ SetTileId(<<7, 0>>, tiles.hole.id)
    \/ Alone /\ Op(MaxAgainOps) /\ PlayerMove(<<1, 0>>)
    \/ \E s \in { 0, 1 } : Alone /\ Op(MaxAgainOps) /\ Reinitialize(s)

SpecAgain == Init /\ [][NextAgain]_vars

(***************************************************************************)
(* The phases of World.update: calls at ticks of every residue modulo 4,   *)
(* 8 and 32 on a world with a hole and a dirt cell beside the sea channel  *)
(* and a mob.                                                              *)
(***************************************************************************)
MaxPhaseOps == 3

\* Ticks world.update is called with.
PhaseTicks == { 2, 3, 4, 8, 32, 35 }

NextPhase ==
    \/ \E s \in { 0, 3 } : Alone /\ Initialize(s)
    \/ Alone /\ Op(MaxPhaseOps) /\ SetTileId(<<7, 0>>, tiles.hole.id)
    \/ Alone /\ Op(MaxPhaseOps) /\ SetTileId(<<8, 0>>, tiles.dirt.id)
    \/ Alone /\ Op(MaxPhaseOps) /\ SpawnMob(<<9, 0>>, "pig")
    \/ \E t \in PhaseTicks : Alone /\ Op(MaxPhaseOps) /\ WorldUpdate(t)

SpecPhase == Init /\ [][NextPhase]_vars

(***************************************************************************)
(* update_tiles at the edge of the loaded block: on the chunks (2, 0) and  *)
(* (0, 2) of its border and on the chunks (3, 0) and (0, 3) beyond it,     *)
(* which are loaded only by an explicit load_chunk.                        *)
(***************************************************************************)
MaxEdgeOps == 3

NextEdge ==
    \/ \E s \in { 0, 1 } : Alone /\ Initialize(s)
    \/ Alone /\ Op(MaxEdgeOps) /\ SetTileId(<<23, 0>>, tiles.dirt.id)
    \/ \E c \in { <<6, 22>>, <<6, 23>> } :
          Alone /\ Op(MaxEdgeOps) /\ SetTileId(c, tiles.hole.id)
    \/ \E c \in { <<3, 0>>, <<0, 3>> } : Alone /\ Op(MaxEdgeOps) /\ LoadChunk(c)
    \/ \E c \in { <<2, 0>>, <<3, 0>> } : Alone /\ Op(MaxEdgeOps) /\ UpdateTiles(c, "grass")
    \/ \E c \in { <<0, 2>>, <<0, 3>> } : Alone /\ Op(MaxEdgeOps) /\ UpdateTiles(c, "water")

SpecEdge == Init /\ [][NextEdge]_vars

(***************************************************************************)
(* Mobs and the ground under them: the player digs the cell it faces,      *)
(* mobs are spawned there and move, and the automaton runs.                *)
(***************************************************************************)
MaxStandOps == 4

NextStand ==
    \/ \E s \in { 0, 2 } : Alone /\ Initialize(s)
    \/ Alone /\ Op(MaxStandOps) /\ PlayerAttack
    \/ Alone /\ Op(MaxStandOps) /\ SpawnMob(<<2, 0>>, "pig")
    \/ Alone /\ Op(MaxStandOps) /\ MobMove(1)
    \/ \E t \in { 4, 8 } : Alone /\ Op(MaxStandOps) /\ WorldUpdate(t)

SpecStand == Init /\ [][NextStand]_vars

(***************************************************************************)
(* The ways a tile id changes once its chunk exists: decay under the       *)
(* player's attacks and under Tile.hurt, and the two automaton rules, on   *)
(* cells dug beside the sea channel and on the island the player stands on.*)
(***************************************************************************)
MaxDecayOps == 3

NextDecay ==
    \/ \E s \in { 0, 2, 3 } : Alone /\ Initialize(s)
    \/ Alone /\ Op(MaxDecayOps) /\ PlayerAttack
    \/ \E c \in { <<7, 0>>, <<8, 0>> } : Alone /\ Op(MaxDecayOps) /\ TileHurt(c)
    \/ Alone /\ Op(MaxDecayOps) /\ SetTileId(<<7, 0>>, tiles.hole.id)
    \/ Alone /\ Op(MaxDecayOps) /\ SetTileId(<<8, 0>>, tiles.dirt.id)
    \/ \E t \in { 8, 32 } : Alone /\ Op(MaxDecayOps) /\ WorldUpdate(t)

SpecDecay == Init /\ [][NextDecay]_vars

(***************************************************************************)
(* Damage and the save file: the faced cell is turned to stone or a pig is *)
(* put on it, the player attacks, and the game is saved and loaded.        *)
(***************************************************************************)
MaxHealOps == 4

NextHeal ==
    \/ \E s \in { 0, 2 } : Alone /\ Initialize(s)
    \/ Alone /\ Op(MaxHealOps) /\ SetTileId(<<2, 0>>, tiles.stone.id)
    \/ Alone /\ Op(MaxHealOps) /\ SpawnMob(<<2, 0>>, "pig")
    \/ Alone /\ Op(MaxHealOps) /\ PlayerAttack
    \/ Alone /\ Op(MaxHealOps) /\ Save
    \/ Alone /\ Op(MaxHealOps) /\ Load

SpecHeal == Init /\ [][NextHeal]_vars

(***************************************************************************)
(* Rest.  The player wades once into the sea north of the spawn point,      *)
(* tires there (player.update at ticks divisible by 30), comes back, and   *)
(* then player.update is called tick after tick with the updater's         *)
(* counter, as Updater.update does at the end of every frame.              *)
(***************************************************************************)
\* Moves and updates in the water before the rest: out, twenty updates that
\* take the energy to 0, and back.
MaxRestOps == 22

\* Ticks of the updater's counter in SpecRest.
MaxRestTicks == 63

\* The last tick at which the player still moves or tires.
LastBusyTick == 2

\* "self.player.update(self.ticks); self.ticks += 1"; the call record holds
\* the tick and the number of such calls made in a row.
PlayerTick ==
    /\ loaded /\ uticks < MaxRestTicks
    /\ SetBoth(player_update(Mem, player, uticks))
    /\ uticks' = uticks + 1
    /\ Did("player_tick",
           <<uticks, IF last.op = "player_tick" THEN last.args[2] + 1 ELSE 1>>)
    /\ UNCHANGED <<wticks, loaded, file, ops>>

NextRest ==
    \/ Alone /\ Initialize(2)
    \/ Alone /\ Op(MaxRestOps) /\ ops = 0 /\ uticks <= LastBusyTick
             /\ PlayerMove(<<0, -1>>)
    \/ Alone /\ Op(MaxRestOps) /\ uticks <= LastBusyTick /\ player.y < spawn[2]
             /\ PlayerMove(<<0, 1>>)
    \/ Alone /\ Op(MaxRestOps) /\ uticks <= LastBusyTick /\ player.y < spawn[2]
             /\ PlayerUpdate(30)
    \/ Alone /\ PlayerTick

SpecRest == Init /\ [][NextRest]_vars
(***************************************************************************)
(* Properties                                                              *)
(***************************************************************************)
\* The tile id of every cell of every loaded chunk.
GridIds(grid) == [h \in Rows |-> [w \in Rows |-> grid[h][w].id]]

IdsIn(chs) == [c \in DOMAIN chs |-> GridIds(chs[c])]

\* Cell (h, w) of chunk c held id `from` before the step and holds `to` after it.
Flipped(c, h, w, from, to) ==
    chunks[c][h][w].id = from /\ chunks'[c][h][w].id = to

\* C1: within one World.update call a dirt cell becomes grass (a hole cell
\* becomes river) only if one of its four orthogonal neighbours held an
\* influence tile in the state before the call began, whether the neighbour
\* lies in the same chunk or in an adjacent one.
C1_OneCellPerUpdate ==
    [][last'.op = "update" =>
        \A c \in DOMAIN chunks : \A h \in Rows, w \in Rows :
            /\ Flipped(c, h, w, tiles.hole.id, tiles.river.id)
                 => tiles_around(chunks, WaterInfluences, w, h, c[1], c[2])
            /\ Flipped(c, h, w, tiles.dirt.id, tiles.grass.id)
                 => tiles_around(chunks, GrassInfluences, w, h, c[1], c[2])]_vars

\* C2: in every state reached through spawn_mob and World.update calls the
\* entity list holds at most 16 mobs.
C2_EntityCap == Len(entities) <= MAX_MOBS

\* C3: for a fixed seed the tile-id grid load_chunk(cx, cy) generates is the
\* same whatever was loaded or drawn from the random source before it: every
\* (seed, cx, cy) has one generated grid.
C3_GridDependsOnSeedAndCoords == \A k \in DOMAIN gen : Cardinality(gen[k]) = 1

\* What a save/load round trip must preserve: chunk coordinates and tile
\* ids, the entity list, spawn point, seed, permutation, tick counter and
\* the player's position, health, energy and facing.
Observed(m, pl, ut) ==
    [ ids      |-> IdsIn(m.chunks),
      entities |-> [i \in 1..Len(m.entities) |->
                      <<m.entities[i].id, m.entities[i].x, m.entities[i].y>>],
      spawn    |-> <<m.sx, m.sy>>,
      seed     |-> m.seed,
      perm     |-> m.perm,
      ticks    |-> ut,
      player   |-> <<pl.x, pl.y, pl.health, pl.energy, pl.facing>> ]

ObservedAfter(r) == Observed(r.m, r.pl, r.ticks)

\* The memories Saveload.load may run in: the running process or a new one.
LoadMems == { Mem } \cup { Fresh(e) : e \in Entropy }

\* C4: for every reachable state S of a loaded world, Saveload.load applied
\* to the record Saveload.save writes in S restores the chunks' tile ids,
\* the entity list, the spawn point, seed, permutation and tick counter, and
\* the player's position, health, energy and facing.
C4_LoadRestoresSave ==
    loaded =>
        \A m0 \in LoadMems :
            ObservedAfter(load_record(m0, IF m0 = Mem THEN player ELSE NewPlayer,
                                      save_record(Mem, player, uticks)))
                = Observed(Mem, player, uticks)

\* A load has just run on a world with a mob, a ticking updater and a
\* player away from the origin.
C4_Witness ==
    /\ last.op = "load"
    /\ Len(entities) > 0
    /\ uticks > 0
    /\ <<player.x, player.y>> # <<0, 0>>

\* C5: load_chunk on a chunk that is present changes no tile id, loads no
\* chunk and leaves the spawn point alone.
C5_LoadPresentChunkIsNoOp ==
    [][(last'.op = "load_chunk" /\ <<last'.args[1], last'.args[2]>> \in DOMAIN chunks)
          => /\ DOMAIN chunks' = DOMAIN chunks
             /\ IdsIn(chunks') = IdsIn(chunks)
             /\ spawn' = spawn]_vars

\* load_chunk was called on a present chunk one of whose cells was modified
\* since generation (it holds a hole).
C5_Witness ==
    /\ last.op = "load_chunk"
    /\ last.args[3]
    /\ \E h \in Rows, w \in Rows :
          chunks[<<last.args[1], last.args[2]>>][h][w].id = tiles.hole.id

\* C6: no two grid cells, in the same chunk or in different chunks, hold the
\* same Tile object.
C6_NoSharedTile ==
    Cardinality({ <<c, h, w>> : c \in DOMAIN chunks, h \in Rows, w \in Rows })
        = Cardinality({ chunks[c][h][w].obj : c \in DOMAIN chunks, h \in Rows, w \in Rows })

\* The qualifying cells of the initial block: <<k, j>> is cell j (row-major)
\* of the k-th chunk initialize loads.
SpawnCandidates ==
    { q \in (1..((2 * INIT_RADIUS) * (2 * INIT_RADIUS))) \X (0..(CHUNK_SIZE * CHUNK_SIZE - 1)) :
        chunks[InitSeq(0, 0)[q[1]]][q[2] \div CHUNK_SIZE][q[2] % CHUNK_SIZE].id \in SpawnKinds }

FirstCandidate ==
    CHOOSE q \in SpawnCandidates :
        \A r \in SpawnCandidates : q[1] < r[1] \/ (q[1] = r[1] /\ q[2] <= r[2])

C8_SpawnNeverChanges ==
    [][(loaded /\ last'.op \in { "get_tile", "set_tile", "set_tile_obj", "load_chunk",
                                 "spawn_mob", "update", "move", "attack" })
          => spawn' = spawn]_vars

\* The cell of chs at world coordinates (x, y), found without dividing:
\* chunk * CHUNK_SIZE + local gives back (x, y).
CellsAt(chs, x, y) ==
    { q \in (DOMAIN chs) \X Rows \X Rows :
        q[1][1] * CHUNK_SIZE + q[3] = x /\ q[1][2] * CHUNK_SIZE + q[2] = y }

\* C9: set_tile(x, y, id) writes the one cell with chunk * 8 + local = (x, y)
\* and changes the id of no other cell; get_tile(x, y) returns the Tile of
\* that cell; so get_tile after set_tile returns a tile of the id written,
\* for negative coordinates too.
C9_FloorAddressing ==
    [][/\ last'.op = "set_tile" =>
            /\ \E q \in CellsAt(chunks', last'.args[1], last'.args[2]) :
                  chunks'[q[1]][q[2]][q[3]].id = last'.args[3]
            /\ \A c \in DOMAIN chunks : \A h \in Rows, w \in Rows :
                  <<c, h, w>> \notin CellsAt(chunks, last'.args[1], last'.args[2])
                     => chunks'[c][h][w].id = chunks[c][h][w].id
       /\ last'.op = "get_tile" =>
            /\ \E q \in CellsAt(chunks', last'.args[1], last'.args[2]) :
                  chunks'[q[1]][q[2]][q[3]] = last'.args[3]
            /\ (last.op = "set_tile" /\ last.args[1] = last'.args[1]
                                     /\ last.args[2] = last'.args[2])
                  => last'.args[3].id = last.args[3]]_vars

\* get_tile at negative coordinates returned the hole that set_tile had just
\* written there.
C9_Witness ==
    /\ last.op = "get_tile"
    /\ last.args[1] < 0 /\ last.args[2] < 0
    /\ last.args[3].id = tiles.hole.id

\* C10: every loaded chunk is a full 8x8 grid of catalog tiles none of which
\* is the 'empty' placeholder, and the tile get_tile returns is one of them,
\* its chunk having been generated if it was absent.
C10_NoEmptyCell ==
    /\ \A c \in DOMAIN chunks :
          /\ DOMAIN chunks[c] = Rows
          /\ \A h \in Rows :
                /\ DOMAIN chunks[c][h] = Rows
                /\ \A w \in Rows : chunks[c][h][w].id \in TileIds \ { tiles.empty.id }
    /\ last.op = "get_tile" =>
          /\ last.args[3].id \in TileIds \ { tiles.empty.id }
          /\ CellsAt(chunks, last.args[1], last.args[2]) # {}

\* get_tile was called at negative coordinates in a chunk that was absent.
C10_Witness ==
    /\ last.op = "get_tile"
    /\ ~last.args[4]
    /\ last.args[1] < 0

\* C11: after initialize on a fresh world (the player stands in chunk (0, 0)
\* when it is called) every chunk within 3 of the player's chunk on both
\* axes is loaded: the 7x7 block of 49 chunks.
C11_InitLoadsSevenBySeven ==
    last.op = "initialize" =>
        \A dx \in -3..3, dy \in -3..3 : <<dx, dy>> \in DOMAIN chunks

\* C12: two fresh worlds initialized with the same seed, each in its own
\* process, and given the same sequence of operations hold the same tile id
\* in every cell of every loaded chunk and the same spawn point, whatever
\* states the two random sources started in.
C12_SameSeedSameWorld ==
    twin # None =>
        /\ IdsIn(chunks) = IdsIn(twin[1].m.chunks)
        /\ spawn = <<twin[1].m.sx, twin[1].m.sy>>

\* The two random sources started in different states, and chunk (3, 0)
\* was generated in both worlds after another operation had drawn from them.
C12_Witness ==
    /\ twin # None
    /\ twin[1].entropy[1] # twin[1].entropy[2]
    /\ last.op = "load_chunk" /\ ~last.args[3]
    /\ ops = MaxTwinOps
    /\ <<3, 0>> \in DOMAIN twin[1].m.chunks

\* The entities standing on the cell the player faces, in the state before
\* the step, and the first of them in list order.
OnFaced(i) ==
    entities[i].x = player.facing[1] /\ entities[i].y = player.facing[2]

FirstOnFaced(i) ==
    /\ i \in 1..Len(entities)
    /\ OnFaced(i)
    /\ \A j \in 1..(i - 1) : ~OnFaced(j)

\* The loaded cell the player faces.
FacedCells == CellsAt(chunks, player.facing[1], player.facing[2])

\* Every cell other than q keeps its id, and keeps its Tile unless it holds
\* the very Tile object t.
OthersKept(q, t) ==
    \A c \in DOMAIN chunks : \A h \in Rows, w \in Rows :
        <<c, h, w>> # q =>
            /\ chunks'[c][h][w].id = chunks[c][h][w].id
            /\ chunks[c][h][w].obj # t.obj => chunks'[c][h][w] = chunks[c][h][w]

\* The Tile t of cell q took 8 damage: its health is 8 lower, or, when that
\* is not above 0, the cell holds a new tile of the parent kind.
TileDamaged(q, t) ==
    /\ t.health # None
    /\ IF t.health[1] - 8 > 0
       THEN chunks'[q[1]][q[2]][q[3]] = [t EXCEPT !.health = Some(t.health[1] - 8)]
       ELSE /\ chunks'[q[1]][q[2]][q[3]].id = KindOf(t.id).parent[1]
            /\ chunks'[q[1]][q[2]][q[3]].health = KindOf(KindOf(t.id).parent[1]).health
    /\ OthersKept(q, t)

\* The first entity on the faced cell took 8 damage and left the list if
\* its health did not stay above 0; no tile changed.
EntityDamaged ==
    /\ chunks' = chunks
    /\ \E i \in 1..Len(entities) :
          /\ FirstOnFaced(i)
          /\ entities' = IF entities[i].health - 8 <= 0
                         THEN RemoveAt(entities, i)
                         ELSE [entities EXCEPT ![i].health = @ - 8]

\* C13 as stated: with energy >= 6 an attack costs 6 energy and damages
\* exactly one thing, the first entity on the faced cell if there is one
\* (the faced tile then unchanged), the faced tile otherwise (no entity
\* then changed); with energy < 6 it changes nothing.
C13_AttackDamagesOneThing ==
    [][last'.op = "attack" =>
        IF player.energy < 6
        THEN UNCHANGED <<player, entities, chunks>>
        ELSE /\ player' = [player EXCEPT !.energy = @ - 6]
             /\ IF \E i \in 1..Len(entities) : OnFaced(i)
                THEN EntityDamaged
                ELSE /\ entities' = entities
                     /\ \A q \in FacedCells :
                           TileDamaged(q, chunks[q[1]][q[2]][q[3]])]_vars

\* C13, amended: the same, except that a faced tile without durability
\* (water, hole, empty) takes no damage: the energy is spent and no tile
\* and no entity changes.
C13_AttackDamagesAtMostOneThing ==
    [][last'.op = "attack" =>
        IF player.energy < 6
        THEN UNCHANGED <<player, entities, chunks>>
        ELSE /\ player' = [player EXCEPT !.energy = @ - 6]
             /\ IF \E i \in 1..Len(entities) : OnFaced(i)
                THEN EntityDamaged
                ELSE /\ entities' = entities
                     /\ \A q \in FacedCells :
                           IF chunks[q[1]][q[2]][q[3]].health = None
                           THEN chunks' = chunks
                           ELSE TileDamaged(q, chunks[q[1]][q[2]][q[3]])]_vars

\* Three attacks were paid for; the faced sand was broken to dirt, the dirt
\* to a hole, and the last attack met the hole, which has no durability.
C13_Witness ==
    /\ last.op = "attack"
    /\ player.energy = MAX_STAT - 18
    /\ entities = <<>>
    /\ FacedCells # {}
    /\ \A q \in FacedCells : chunks[q[1]][q[2]][q[3]].id = tiles.hole.id

\* C14: player.move(mx, my) leaves the position unchanged when the tile at
\* (mx, my) is solid and sets it to exactly (mx, my) otherwise; health and
\* energy, every entity and every tile of every loaded chunk stay as they
\* were (the call always returns: get_tile generates a missing chunk).
C14_MoveRejectedWhenSolid ==
    [][last'.op = "move" =>
        /\ \A q \in CellsAt(chunks', player.x + last'.args[1], player.y + last'.args[2]) :
              <<player'.x, player'.y>> =
                  IF KindOf(chunks'[q[1]][q[2]][q[3]].id).solid
                  THEN <<player.x, player.y>>
                  ELSE <<player.x + last'.args[1], player.y + last'.args[2]>>
        /\ CellsAt(chunks', player.x + last'.args[1], player.y + last'.args[2]) # {}
        /\ player'.health = player.health /\ player'.energy = player.energy
        /\ entities' = entities
        /\ \A c \in DOMAIN chunks : chunks'[c] = chunks[c]]_vars

\* A move to the right was rejected: the cell to the right of the player is
\* the stone that was put there.
C14_Witness ==
    /\ last.op = "move" /\ last.args = <<1, 0>>
    /\ \E q \in CellsAt(chunks, player.x + 1, player.y) :
          chunks[q[1]][q[2]][q[3]].id = tiles.stone.id

\* C15: when Saveload.load fails because the record lacks a key, the
\* player, the world (the tile id of every cell, the entities, seed,
\* permutation and spawn point) and the updater are exactly as they were
\* before the call and world.loaded is not set; a start without a save file leaves the
\* game not loaded.
C15_FailedLoadChangesNothing ==
    [][/\ last'.op = "load_failed" =>
            /\ IdsIn(chunks') = IdsIn(chunks)
            /\ UNCHANGED <<entities, wseed, perm, spawn, wticks, loaded,
                           player, uticks>>
       /\ last'.op = "restart" /\ file = None => ~loaded']_vars

\* C16: after World.update(t), t >= 0, world.ticks is t mod 24000, and
\* daylight() is an integer in [16, 255]: 255 from tick 3000 up to 16000,
\* 16 from tick 18000 up to 24000, 16 at tick 0, not below its value at any
\* earlier tick of [0, 3000) and not above its value at any earlier tick of
\* [16000, 18000).
C16_DaylightLaw ==
    last.op = "update" =>
        /\ wticks \in 0..23999
        /\ \E k \in 0..2 : last.args[1] = wticks + 24000 * k
        /\ daylight(wticks) \in 16..255
        /\ wticks \in 3000..15999 => daylight(wticks) = 255
        /\ wticks \in 18000..23999 => daylight(wticks) = 16
        /\ wticks = 0 => daylight(wticks) = 16
        /\ wticks \in 0..2999 =>
              \A u \in 0..wticks : daylight(u) <= daylight(wticks)
        /\ wticks \in 16000..17999 =>
              \A u \in 16000..wticks : daylight(u) >= daylight(wticks)

\* An update of a later day fell inside the evening ramp, where daylight()
\* is strictly between its two levels.
C16_Witness ==
    /\ last.op = "update" /\ last.args[1] = 41000
    /\ wticks = 17000
    /\ daylight(wticks) \in 17..254

\* C17: in every state reached through Player.update and Player.attack the
\* player's health and energy lie in [0, 20].
C17_StatsInRange ==
    loaded => player.health \in 0..20 /\ player.energy \in 0..20

\* The player swam until energy and health were both 0, and one more update
\* ran the health rule at 0.
C17_Witness ==
    /\ last = [op |-> "player_update", args |-> <<30>>]
    /\ ops = MaxStatOps
    /\ player.health = 0 /\ player.energy = 0

\* The ids held at world coordinates (x, y) by the loaded chunks (none if
\* the chunk is not loaded), found by comparing chunk * CHUNK_SIZE + local.
IdsAtCell(chs, x, y) ==
    { chs[c][y - c[2] * CHUNK_SIZE][x - c[1] * CHUNK_SIZE].id :
        c \in { d \in DOMAIN chs :
                  /\ d[1] * CHUNK_SIZE <= x /\ x < (d[1] + 1) * CHUNK_SIZE
                  /\ d[2] * CHUNK_SIZE <= y /\ y < (d[2] + 1) * CHUNK_SIZE } }

\* One of the four orthogonal neighbours of (x, y) holds an id of ids.
NeighbourIn(chs, ids, x, y) ==
    \E d \in { <<-1, 0>>, <<1, 0>>, <<0, -1>>, <<0, 1>> } :
        IdsAtCell(chs, x + d[1], y + d[2]) \cap ids # {}

\* C18: one update_tiles(cx, cy, target, replacement, influences) call on a
\* loaded chunk turns a cell of that chunk into the replacement id exactly
\* when, before the call, the cell held the target id and one of its four
\* orthogonal neighbours, in this chunk or across its edge in the adjacent
\* one, held an influence id; every other cell of every chunk keeps its id.
C18_UpdateTilesLaw ==
    [][last'.op = "update_tiles" =>
        /\ DOMAIN chunks' = DOMAIN chunks
        /\ \A c \in DOMAIN chunks : \A h \in Rows, w \in Rows :
              chunks'[c][h][w].id =
                  IF /\ c = last'.args[1]
                     /\ chunks[c][h][w].id = last'.args[2]
                     /\ NeighbourIn(chunks, last'.args[4],
                                    c[1] * CHUNK_SIZE + w, c[2] * CHUNK_SIZE + h)
                  THEN last'.args[3]
                  ELSE chunks[c][h][w].id]_vars

\* The water rule ran on chunk (0, 0): the hole in its corner, whose only
\* water neighbour is the sea across the chunk edge, is river now, and the
\* hole next to it, which had no water around it before the call, is not.
C18_Witness ==
    /\ last.op = "update_tiles" /\ last.args[1] = <<0, 0>>
    /\ last.args[2] = tiles.hole.id
    /\ chunks[<<0, 0>>][0][0].id = tiles.river.id
    /\ chunks[<<0, 0>>][0][1].id = tiles.hole.id
    /\ chunks[<<-1, 0>>][0][CHUNK_SIZE - 1].id = tiles.sea.id

\* C19: a hole in a chunk of the 7x7 window World.update iterates, with an
\* ocean, sea or river tile on one of its four orthogonal neighbours (in a
\* loaded chunk), is river after the next World.update(t) with t mod 8 = 0:
\* update is called with consecutive ticks, so the hole stays a hole next to
\* water for at most 8 of them.
C19_WaterReachesHole ==
    [][last'.op = "update" /\ last'.args[1] % 8 = 0 =>
        \A c \in DOMAIN chunks :
            /\ c[1] - player.cx \in -3..3
            /\ c[2] - player.cy \in -3..3
            => \A h \in Rows, w \in Rows :
                  /\ chunks[c][h][w].id = tiles.hole.id
                  /\ NeighbourIn(chunks, { tiles.ocean.id, tiles.sea.id, tiles.river.id },
                                 c[1] * CHUNK_SIZE + w, c[2] * CHUNK_SIZE + h)
                  => chunks'[c][h][w].id = tiles.river.id]_vars

\* An update at tick 8 turned the hole at (7, 0), next to the sea, into river.
C19_Witness ==
    /\ last = [op |-> "update", args |-> <<8>>]
    /\ chunks[<<0, 0>>][0][7].id = tiles.river.id
    /\ chunks[<<0, 0>>][0][6].id = tiles.sea.id

\* C20: the cell at which World.update (ticks a multiple of 4) attempts to
\* spawn a pig is at most 16 tiles from the player on each axis, and nothing
\* is spawned when a mob already stands on exactly that cell.
C20_SpawnWithinSixteenTiles ==
    [][last'.op = "update" /\ last'.args[1] % 4 = 0 =>
        /\ SpawnX(player.x, rng) - player.x \in -16..16
        /\ SpawnY(player.y, rng) - player.y \in -16..16
        /\ (\E i \in 1..Len(entities) :
               /\ entities[i].x = SpawnX(player.x, rng)
               /\ entities[i].y = SpawnY(player.y, rng))
           => Len(entities') = Len(entities)]_vars

\* C21: every World.update iterates the 49 chunks within 3 of the chunk
\* that contains the player's position, (floor(x / CHUNK_SIZE),
\* floor(y / CHUNK_SIZE)): the window centre player.cx, player.cy that
\* update reads is that chunk whenever update is called.
C21_WindowAroundPlayer ==
    [][last'.op = "update" =>
        /\ player.cx * CHUNK_SIZE <= player.x
        /\ player.x < (player.cx + 1) * CHUNK_SIZE
        /\ player.cy * CHUNK_SIZE <= player.y
        /\ player.y < (player.cy + 1) * CHUNK_SIZE]_vars

\* The tile at (x, y) after the step is solid or a fluid.
BlockedAt(x, y) ==
    \E id \in IdsAtCell(chunks', x, y) :
        id \in { tiles.ocean.id, tiles.sea.id, tiles.river.id } \/ KindOf(id).solid

\* The step appended one mob of kind k at (x, y) and kept the others.
Appended(x, y, k) ==
    /\ Len(entities') = Len(entities) + 1
    /\ SubSeq(entities', 1, Len(entities)) = entities
    /\ entities'[Len(entities')].x = x
    /\ entities'[Len(entities')].y = y
    /\ entities'[Len(entities')].id = mobs[k].id

\* C22 as stated: spawn_mob(x, y, mob) leaves the entity list unchanged when
\* the tile at (x, y) is solid or a fluid; otherwise it sets the mob's
\* coordinates to (x, y) and appends it as the last entity, the earlier
\* entities and their order unchanged.
C22_SpawnAppendsUnlessBlocked ==
    [][last'.op = "spawn_mob" =>
        IF BlockedAt(last'.args[1], last'.args[2])
        THEN entities' = entities
        ELSE Appended(last'.args[1], last'.args[2], last'.args[3])]_vars

\* C22, amended: the list is also left unchanged when it already holds more
\* than 16 entities.
C22_SpawnAppendsUnlessBlockedOrFull ==
    [][last'.op = "spawn_mob" =>
        IF Len(entities) > 16 \/ BlockedAt(last'.args[1], last'.args[2])
        THEN entities' = entities
        ELSE Appended(last'.args[1], last'.args[2], last'.args[3])]_vars

\* A spawn on a free cell was refused because the list held 17 entities.
C22_Witness ==
    /\ last.op = "spawn_mob"
    /\ ops = MaxSpawnOps
    /\ Len(entities) = 17
    /\ \A id \in IdsAtCell(chunks, 1, 0) : id = tiles.sand.id

\* Entity i stands on (x, y) before the step.
StandsOn(i, x, y) == entities[i].x = x /\ entities[i].y = y

\* The step removed entity i and kept the others in their order.
Removed(i) ==
    /\ Len(entities') = Len(entities) - 1
    /\ \A j \in 1..(i - 1) : entities'[j] = entities[j]
    /\ \A j \in i..Len(entities') : entities'[j] = entities[j + 1]

\* C23: despawn_mob(x, y) removes exactly one entity, the first in list
\* order whose coordinates are (x, y), and keeps every other entity and
\* their order; with no entity at (x, y) the list is unchanged.
C23_DespawnRemovesFirstMatch ==
    [][last'.op = "despawn_mob" =>
        IF \E i \in 1..Len(entities) : StandsOn(i, last'.args[1], last'.args[2])
        THEN \E i \in 1..Len(entities) :
                /\ StandsOn(i, last'.args[1], last'.args[2])
                /\ \A j \in 1..(i - 1) : ~StandsOn(j, last'.args[1], last'.args[2])
                /\ Removed(i)
        ELSE entities' = entities]_vars

\* Two mobs stood on the cell; the pig spawned first is gone and the sheep
\* spawned after it is still there.
C23_Witness ==
    /\ last.op = "despawn_mob"
    /\ Len(entities) = 1
    /\ entities[1].x = last.args[1] /\ entities[1].y = last.args[2]
    /\ entities[1].id = mobs.sheep.id

\* C24: a Mob.move call either keeps the position and picks a facing, or
\* keeps the facing and moves the mob one cell in that facing onto a cell
\* whose tile is neither fluid nor solid; with the cell ahead fluid or solid
\* the position is kept.  No other entity changes.
C24_MobMovesOneFreeCell ==
    [][last'.op = "mob_move" =>
        /\ Len(entities') = Len(entities)
        /\ \A j \in 1..Len(entities) :
              IF j # last'.args[1] THEN entities'[j] = entities[j]
              ELSE /\ entities'[j].id = entities[j].id
                   /\ entities'[j].health = entities[j].health
                   /\ \/ /\ entities'[j].x = entities[j].x
                         /\ entities'[j].y = entities[j].y
                         /\ entities'[j].facing \in { "w", "s", "a", "d" }
                      \/ /\ entities'[j].facing = entities[j].facing
                         /\ <<entities'[j].x - entities[j].x, entities'[j].y - entities[j].y>>
                               \in { <<0, -1>>, <<0, 1>>, <<-1, 0>>, <<1, 0>> }
                         /\ <<entities'[j].x - entities[j].x, entities'[j].y - entities[j].y>>
                               = offsets[entities[j].facing]
                         /\ ~BlockedAt(entities'[j].x, entities'[j].y)]_vars

\* A mob has stepped off the cell it was spawned on.
C24_Witness ==
    /\ last.op = "mob_move"
    /\ Len(entities) = 1
    /\ <<entities[1].x, entities[1].y>> \notin { <<2, 0>>, <<3, 0>> }

OthersUntouched(q) ==
    \A c \in DOMAIN chunks : \A h \in Rows, w \in Rows :
        <<c, h, w>> # q =>
            /\ chunks'[c][h][w].id = chunks[c][h][w].id
            /\ chunks'[c][h][w].health = chunks[c][h][w].health

\* C26: Tile.hurt at (x, y) on a tile without durability changes nothing;
\* on a tile with durability it subtracts the damage from that cell's tile,
\* and when the durability is then 0 or below the cell holds a fresh tile of
\* the decay-target kind with its catalog durability.  No other cell's id or
\* durability changes.
C26_HurtTouchesOneCell ==
    [][last'.op = "tile_hurt" =>
        \A q \in CellsAt(chunks, last'.args[1], last'.args[2]) :
            IF chunks[q[1]][q[2]][q[3]].health = None
            THEN IdsIn(chunks') = IdsIn(chunks) /\ OthersUntouched(<<>>)
            ELSE /\ OthersUntouched(q)
                 /\ IF chunks[q[1]][q[2]][q[3]].health[1] - 8 > 0
                    THEN /\ chunks'[q[1]][q[2]][q[3]].id = chunks[q[1]][q[2]][q[3]].id
                         /\ chunks'[q[1]][q[2]][q[3]].health
                               = Some(chunks[q[1]][q[2]][q[3]].health[1] - 8)
                    ELSE /\ chunks'[q[1]][q[2]][q[3]].id
                               = KindOf(chunks[q[1]][q[2]][q[3]].id).parent[1]
                         /\ chunks'[q[1]][q[2]][q[3]].health
                               = KindOf(chunks'[q[1]][q[2]][q[3]].id).health]_vars

\* C27: the classification gives every input one kind by elevation bands:
\* below 0.60 one of ocean, iceberg, sea, ice, snow, sand; in [1.75, 1.95)
\* stone; from 1.95 on gravel; whatever humidity, temperature and rolls.
C27_BandsByElevation ==
    last.op = "classify" =>
        /\ last.args[5] \in DOMAIN tiles
        /\ last.args[1] < 60 =>
              last.args[5] \in { "ocean", "iceberg", "sea", "ice", "snow", "sand" }
        /\ last.args[1] \in 175..194 => last.args[5] = "stone"
        /\ last.args[1] >= 195 => last.args[5] = "gravel"

\* C28: when initialize(seed) has returned, the player stands on the spawn
\* point (sx, sy), the tile of that cell is grass, sand or snow, and
\* world.loaded is true.
C28_PlayerOnSpawnTile ==
    last.op = "initialize" =>
        /\ loaded
        /\ player.x = spawn[1] /\ player.y = spawn[2]
        /\ TileAt(Mem, spawn[1], spawn[2]).id
               \in { tiles.grass.id, tiles.sand.id, tiles.snow.id }

\* C29: initialize(seed) clears the chunk map before it generates: no chunk
\* that was loaded before the call is in the map after it (every chunk of
\* the map was built by this call, with the new seed's permutation table).
C29_InitializeClearsChunks ==
    [][last'.op = "initialize" =>
        \A c \in DOMAIN chunks' \cap DOMAIN chunks : chunks'[c] # chunks[c]]_vars

\* Some cell loaded before the step changes its tile id in the step.
SomeIdChanged ==
    \E c \in DOMAIN chunks : \E h \in Rows, w \in Rows :
        chunks'[c][h][w].id # chunks[c][h][w].id

\* Some cell holds id `from` before the step and `to` after it.
SomeFlipped(from, to) ==
    \E c \in DOMAIN chunks : \E h \in Rows, w \in Rows : Flipped(c, h, w, from, to)

\* C30: World.update(t) with t not divisible by 4 changes nothing but
\* world.ticks: no tile, no entity, no chunk loaded.  A dirt cell becomes
\* grass only in an update with t mod 32 = 0, a hole becomes river only with
\* t mod 8 = 0 (and no tile id changes otherwise); the entity list changes
\* only with t mod 4 = 0.
C30_UpdatePhases ==
    [][last'.op = "update" =>
        /\ wticks' = last'.args[1] % 24000
        /\ last'.args[1] % 4 # 0 =>
              /\ chunks' = chunks /\ entities' = entities
              /\ spawn' = spawn /\ wseed' = wseed /\ perm' = perm /\ player' = player
        /\ SomeFlipped(tiles.dirt.id, tiles.grass.id) => last'.args[1] % 32 = 0
        /\ SomeFlipped(tiles.hole.id, tiles.river.id) => last'.args[1] % 8 = 0
        /\ SomeIdChanged => last'.args[1] % 8 = 0
        /\ entities' # entities => last'.args[1] % 4 = 0]_vars

\* An update at a tick not divisible by 4 ran on a world with a mob and a
\* hole beside the sea channel, and left both.
C30_Witness ==
    /\ last.op = "update" /\ last.args[1] % 4 # 0
    /\ Len(entities) > 0
    /\ \E q \in CellsAt(chunks, 7, 0) : chunks[q[1]][q[2]][q[3]].id = tiles.hole.id

\* C31: update_tiles on chunk coordinates that are not loaded changes
\* nothing, and no update_tiles call adds a chunk to the chunk map: a cell
\* changes its id only if a neighbour in a chunk that was loaded before the
\* call held an influence id, so a neighbour chunk that is not loaded is not
\* generated and gives no influence.
C31_UpdateTilesLoadsNothing ==
    [][last'.op = "update_tiles" =>
        /\ DOMAIN chunks' = DOMAIN chunks
        /\ last'.args[1] \notin DOMAIN chunks =>
              /\ chunks' = chunks /\ entities' = entities
              /\ rng' = rng /\ nextObj' = nextObj /\ gen' = gen
        /\ \A c \in DOMAIN chunks : \A h \in Rows, w \in Rows :
              chunks'[c][h][w].id # chunks[c][h][w].id =>
                  NeighbourIn(chunks, last'.args[4],
                              c[1] * CHUNK_SIZE + w, c[2] * CHUNK_SIZE + h)]_vars

\* The grass rule ran on chunk (2, 0) at the east border of the loaded block
\* while chunk (3, 0) was not loaded: the dirt at (23, 0), whose only grass
\* neighbour would be (24, 0) in that chunk, is still dirt and chunk (3, 0)
\* is still absent.
C31_Witness ==
    /\ last.op = "update_tiles" /\ last.args[1] = <<2, 0>>
    /\ <<3, 0>> \notin DOMAIN chunks
    /\ IdsAtCell(chunks, 23, 0) = { tiles.dirt.id }
    /\ Heightmap(perm, 24, 0) >= 60

\* C32: in every reachable state no entity of the entity list stands on a
\* cell whose tile is solid or is a fluid (ocean, sea, river), whatever the
\* interleaving of spawn_mob, mob moves, player attacks and automaton
\* updates.
C32_NoMobOnBlockedCell ==
    \A i \in 1..Len(entities) :
        \A id \in IdsAtCell(chunks, entities[i].x, entities[i].y) :
            id \notin fluids /\ ~KindOf(id).solid

\* C33: in every state after the world is initialized or loaded, the cell
\* the player faces is orthogonally adjacent to the player's position: the
\* Manhattan distance between player.facing and (player.x, player.y) is 1.
C33_FacingAdjacent ==
    loaded =>
        \/ player.facing[2] = player.y
             /\ player.facing[1] - player.x \in { -1, 1 }
        \/ player.facing[1] = player.x
             /\ player.facing[2] - player.y \in { -1, 1 }

\* C34: across one player attack, one Tile.hurt (with its set_tile by decay)
\* or one World.update, every cell of a chunk that exists keeps its tile id,
\* or takes the decay target of the kind it held, or goes from dirt to grass
\* or from hole to river; so no such operation turns a non-solid cell into
\* a solid one.
C34_IdChangesAreDecayOrRule ==
    [][last'.op \in { "attack", "tile_hurt", "update" } =>
        \A c \in DOMAIN chunks : \A h \in Rows, w \in Rows :
            /\ \/ chunks'[c][h][w].id = chunks[c][h][w].id
               \/ KindOf(chunks[c][h][w].id).parent = Some(chunks'[c][h][w].id)
               \/ Flipped(c, h, w, tiles.dirt.id, tiles.grass.id)
               \/ Flipped(c, h, w, tiles.hole.id, tiles.river.id)
            /\ KindOf(chunks'[c][h][w].id).solid => KindOf(chunks[c][h][w].id).solid]_vars

\* The player attacked the sand cell it faces twice: the cell went to dirt
\* and then to hole, the decay targets in turn.
C34_Witness ==
    /\ last.op = "attack" /\ player.energy = 8
    /\ IdsAtCell(chunks, player.facing[1], player.facing[2]) = { tiles.hole.id }
    /\ Len(entities) = 0

\* C35: Saveload.save does not modify the live game: every chunk cell holds
\* the Tile it held (same object, id and durability), and the entity list,
\* the player's fields, the seed, permutation table, spawn point and the
\* tick counters are what they were; only the save file is written.
C35_SaveLeavesGame ==
    [][last'.op = "save" =>
        /\ chunks' = chunks /\ entities' = entities /\ player' = player
        /\ wseed' = wseed /\ perm' = perm /\ spawn' = spawn
        /\ uticks' = uticks /\ wticks' = wticks /\ loaded' = loaded
        /\ file' = Some(save_record(Mem, player, uticks))]_vars

\* A save was made of a game with a mob, after the player had attacked, and
\* the file holds the record of the live state.
C35_Witness ==
    /\ last.op = "save"
    /\ Len(entities) > 0 /\ player.energy < MAX_STAT
    /\ file = Some(save_record(Mem, player, uticks))

\* C36: after Saveload.load every tile has the catalog durability of its
\* kind and every entity the catalog health of its kind, whatever damage
\* they had taken before the save.
C36_LoadRestoresCatalogHealth ==
    [][last'.op = "load" =>
        /\ \A c \in DOMAIN chunks' : \A h \in Rows, w \in Rows :
              chunks'[c][h][w].health = KindOf(chunks'[c][h][w].id).health
        /\ \A i \in 1..Len(entities') :
              entities'[i].health = mobs[Game_mobs[entities'[i].id + 1]].health]_vars

\* A game was loaded whose file was written after the player (energy 14 in
\* the file) had hit the pig on the faced cell (2, 0), the sand under it
\* untouched: the pig is back with health 20.
C36_Witness ==
    /\ last.op = "load"
    /\ player.energy = 14 /\ player.facing = <<2, 0>>
    /\ Len(entities) = 1 /\ entities[1].x = 2 /\ entities[1].y = 0
    /\ entities[1].health = mobs.pig.health
    /\ IdsAtCell(chunks, 2, 0) = { tiles.sand.id }

\* C37: a player who is not swimming and does not attack regains full
\* energy: over Player.update calls made in a row with consecutive ticks the
\* energy never decreases, and from the 60th such call on it is 20,
\* whatever it was when the calls began.
C37_RestRestoresEnergy ==
    [][(last'.op = "player_tick" /\ ~IsFluid(TileAt(Mem, player.x, player.y))) =>
        /\ player'.energy >= player.energy
        /\ last'.args[2] >= 60 => player'.energy = MAX_STAT]_vars

\* The 59th update in a row of a player on land has brought the energy to
\* 19: the rest began with energy 0 and needs its 60th update.
C37_Witness ==
    /\ last.op = "player_tick" /\ last.args[2] = 59
    /\ player.energy = 19
    /\ ~IsFluid(TileAt(Mem, player.x, player.y))

\* Following decay targets from kind id reaches a kind without durability
\* in at most fuel steps.
RECURSIVE DecayEnds(_, _)
DecayEnds(id, fuel) ==
    IF KindOf(id).health = None THEN TRUE
    ELSE IF fuel = 0 \/ KindOf(id).parent = None THEN FALSE
    ELSE DecayEnds(KindOf(id).parent[1], fuel - 1)

\* C38: in the tile catalog every decay target is the id of a catalog kind,
\* a kind has a decay target exactly when it has a durability, and following
\* decay targets from any kind reaches an indestructible kind (durability
\* None) within as many steps as there are kinds: the decay relation has no
\* cycle.  Every tile of the world is of a catalog kind, so repeated hits on
\* its cell change the id finitely often.
C38_DecayTerminates ==
    /\ \A id \in TileIds :
          /\ KindOf(id).id = id
          /\ (KindOf(id).parent # None) <=> (KindOf(id).health # None)
          /\ KindOf(id).parent # None => KindOf(id).parent[1] \in TileIds
          /\ DecayEnds(id, Cardinality(TileIds))
    /\ \A c \in DOMAIN chunks : \A h \in Rows, w \in Rows :
          chunks[c][h][w].id \in TileIds

\* Tile.hurt was called three times on cell (8, 0): the cell has decayed to
\* hole, which has no durability and no decay target, and holds it.
C38_Witness ==
    /\ last.op = "tile_hurt" /\ last.args = <<8, 0>> /\ ops = 3
    /\ IdsAtCell(chunks, 8, 0) = { tiles.hole.id }
    /\ tiles.hole.health = None /\ tiles.hole.parent = None

====
